---- MODULE Spec2Model ----
(***************************************************************************)
(* Hymn scrapers of the liturgi repository.                                *)
(*                                                                         *)
(*   variant "batch"  : src/src/kidung/kjpkjnkb.py  (main -> process_file) *)
(*   variant "single" : src/src/kidung/get_nkb_24.py (main)                *)
(*                                                                         *)
(* Python strings that the code takes apart (headings) are sequences of    *)
(* one-character strings; strings the code only passes on or compares are  *)
(* TLA+ strings.  An Optional value is None (the empty tuple) or Some(x).  *)
(***************************************************************************)
EXTENDS Integers, Sequences, FiniteSets, TLC

\* ------------------------------------------------------------------ bounds
\* longest link list handed to process_file
MaxLinks == 2

\* the processes writing one database file, and the upsert_hymn calls they
\* make between them
MaxWorkers == 2
MaxUpserts == 3

\* a heading's spaces between code and number, and its leading zeros
MaxGap == 2
MaxZeros == 2

\* the longest text handed to a normalizer
MaxText == 5

\* the most div.lirik in a div.lagu, and the most div.bait in a div.lirik
MaxLirik == 2
MaxBait == 3

\* the pages the crawl asks for in each songbook
MaxPage == 2

\* ---------------------------------------------------------------- Optional
None == << >>
Some(x) == << x >>
IsNone(m) == m = None
Val(m) == m[1]

\* -------------------------------------------------------------- characters
\* str.strip() / regex \s whitespace that occurs in the modelled inputs
WS == {" ", "\t", "\n", "\r"}
DIGITS == {"0", "1", "2", "3", "4", "5", "6", "7", "8", "9"}
UPPER == {"A", "B", "C", "D", "E", "F", "G", "H", "I", "J", "K", "L", "M",
          "N", "O", "P", "Q", "R", "S", "T", "U", "V", "W", "X", "Y", "Z"}
LOWER == {"a", "b", "c", "d", "e", "f", "g", "h", "i", "j", "k", "l", "m",
          "n", "o", "p", "q", "r", "s", "t", "u", "v", "w", "x", "y", "z"}

UpperPairs == { <<"a", "A">>, <<"b", "B">>, <<"c", "C">>, <<"d", "D">>,
                <<"e", "E">>, <<"f", "F">>, <<"g", "G">>, <<"h", "H">>,
                <<"i", "I">>, <<"j", "J">>, <<"k", "K">>, <<"l", "L">>,
                <<"m", "M">>, <<"n", "N">>, <<"o", "O">>, <<"p", "P">>,
                <<"q", "Q">>, <<"r", "R">>, <<"s", "S">>, <<"t", "T">>,
                <<"u", "U">>, <<"v", "V">>, <<"w", "W">>, <<"x", "X">>,
                <<"y", "Y">>, <<"z", "Z">> }

\* str.upper() on one character
UpChar(c) == IF c \in LOWER THEN (CHOOSE p \in UpperPairs : p[1] = c)[2] ELSE c

\* str.upper()
Upper(s) == [pos \in 1..Len(s) |-> UpChar(s[pos])]

DigitVal(c) == CHOOSE n \in 0..9 : ToString(n) = c

\* int() of a run of decimal digits
RECURSIVE IntOf(_)
IntOf(ds) ==
    IF ds = << >> THEN 0
    ELSE 10 * IntOf(SubSeq(ds, 1, Len(ds) - 1)) + DigitVal(ds[Len(ds)])

\* the suffix of s from index pos on
From(s, pos) == SubSeq(s, pos, Len(s))

\* first index >= pos whose character is not in set cs (Len(s)+1 if none)
RECURSIVE SkipSet(_, _, _)
SkipSet(s, pos, cs) ==
    IF pos <= Len(s) /\ s[pos] \in cs THEN SkipSet(s, pos + 1, cs) ELSE pos

\* str.strip()
RECURSIVE RStrip(_)
RStrip(s) ==
    IF s # << >> /\ s[Len(s)] \in WS THEN RStrip(SubSeq(s, 1, Len(s) - 1)) ELSE s

Strip(s) == RStrip(From(s, SkipSet(s, 1, WS)))

\* ------------------------------------------------------- text normalisation
\* mutant of PUNCT_MAP: the em dash is left as it is
PUNCT_MAP_NoEmDash(c) ==
    CASE c = "LSQUO" -> "'"
      [] c = "RSQUO" -> "'"
      [] c = "LDQUO" -> "\""
      [] c = "RDQUO" -> "\""
      [] c = "ENDASH" -> "-"
      [] c = "NBSP" -> " "
      [] OTHER -> c

\* PUNCT_MAP: typographic characters to ASCII.  The non-ASCII characters are
\* written by name: LSQUO U+2018, RSQUO U+2019, LDQUO U+201C, RDQUO U+201D,
\* ENDASH U+2013, EMDASH U+2014, NBSP U+00A0.
PUNCT_MAP(c) ==
    CASE c = "LSQUO" -> "'"
      [] c = "RSQUO" -> "'"
      [] c = "LDQUO" -> "\""
      [] c = "RDQUO" -> "\""
      [] c = "ENDASH" -> "-"
      [] c = "EMDASH" -> "-"
      [] c = "NBSP" -> " "
      [] OTHER -> c

\* s.replace("\r\n", "\n").replace("\r", "\n")
RECURSIVE UnifyNewlines(_)
UnifyNewlines(s) ==
    IF s = << >> THEN << >>
    ELSE IF s[1] = "\r" /\ Len(s) >= 2 /\ s[2] = "\n"
         THEN <<"\n">> \o UnifyNewlines(From(s, 3))
    ELSE IF s[1] = "\r" THEN <<"\n">> \o UnifyNewlines(Tail(s))
    ELSE <<s[1]>> \o UnifyNewlines(Tail(s))

\* first index >= pos whose character is c (Len(s)+1 if none): str.find
RECURSIVE IndexOf(_, _, _)
IndexOf(s, pos, c) ==
    IF pos <= Len(s) /\ s[pos] # c THEN IndexOf(s, pos + 1, c) ELSE pos

\* s.split("\n")
RECURSIVE SplitLines(_)
SplitLines(s) ==
    LET pos == IndexOf(s, 1, "\n")
    IN  IF pos > Len(s) THEN << s >>
        ELSE << SubSeq(s, 1, pos - 1) >> \o SplitLines(From(s, pos + 1))

\* "\n".join(lines)
RECURSIVE JoinLines(_)
JoinLines(ls) ==
    IF ls = << >> THEN << >>
    ELSE IF Len(ls) = 1 THEN ls[1]
    ELSE ls[1] \o <<"\n">> \o JoinLines(Tail(ls))

\* mutant of CollapseNewlines: only runs of four or more are collapsed
RECURSIVE CollapseNewlines_FourOrMore(_)
CollapseNewlines_FourOrMore(s) ==
    IF s = << >> THEN << >>
    ELSE IF s[1] = "\n"
         THEN LET j == SkipSet(s, 1, {"\n"})
              IN  (IF j - 1 >= 4 THEN <<"\n", "\n">> ELSE SubSeq(s, 1, j - 1))
                  \o CollapseNewlines_FourOrMore(From(s, j))
    ELSE <<s[1]>> \o CollapseNewlines_FourOrMore(Tail(s))

\* re.sub(r"\n{3,}", "\n\n", s)
RECURSIVE CollapseNewlines(_)
CollapseNewlines(s) ==
    IF s = << >> THEN << >>
    ELSE IF s[1] = "\n"
         THEN LET j == SkipSet(s, 1, {"\n"})
              IN  (IF j - 1 >= 3 THEN <<"\n", "\n">> ELSE SubSeq(s, 1, j - 1))
                  \o CollapseNewlines(From(s, j))
    ELSE <<s[1]>> \o CollapseNewlines(Tail(s))

\* mutant of NormalizeStr: the carriage returns are replaced after the lines
\* are stripped
NormalizeStr_UnifyLast(s) ==
    LET a == [pos \in 1..Len(s) |-> PUNCT_MAP(s[pos])]
        ls == SplitLines(a)
        c == UnifyNewlines(JoinLines([pos \in 1..Len(ls) |-> Strip(ls[pos])]))
    IN  Strip(CollapseNewlines(c))

\* normalize_preserve_newlines (kjpkjnkb.py) / normalize (get_nkb_24.py) on a
\* string that is not None
NormalizeStr(s) ==
    LET a == [pos \in 1..Len(s) |-> PUNCT_MAP(s[pos])]
        b == UnifyNewlines(a)
        ls == SplitLines(b)
        c == JoinLines([pos \in 1..Len(ls) |-> Strip(ls[pos])])
        d == CollapseNewlines(c)
    IN  Strip(d)

\* normalize_preserve_newlines / normalize on Optional[str]
normalize_preserve_newlines(m) == IF IsNone(m) THEN None ELSE Some(NormalizeStr(Val(m)))

\* re.sub(r"[ \u00A0]+", " ", s) of kppk.py: a run of spaces and no-break
\* spaces becomes one space
RECURSIVE CollapseSpaces(_)
CollapseSpaces(s) ==
    IF s = << >> THEN << >>
    ELSE IF s[1] \in {" ", "NBSP"}
         THEN <<" ">> \o CollapseSpaces(From(s, SkipSet(s, 1, {" ", "NBSP"})))
    ELSE <<s[1]>> \o CollapseSpaces(Tail(s))

\* normalize_text of kppk.py on Optional[str]: the lines and the whole are
\* stripped before the runs of newlines are collapsed
normalize_text(m) ==
    IF IsNone(m) THEN None
    ELSE LET b == CollapseSpaces(UnifyNewlines(Val(m)))
             ls == SplitLines(b)
             c == Strip(JoinLines([pos \in 1..Len(ls) |-> Strip(ls[pos])]))
         IN  Some(CollapseNewlines(c))

\* ------------------------------------------------------------ title parser
\* the songbook codes of the title patterns, in the order of the alternation
CODES == << <<"K", "J">>, <<"P", "K", "J">>, <<"N", "K", "B">> >>

CodeName(cs) ==
    CASE cs = <<"K", "J">> -> "KJ"
      [] cs = <<"P", "K", "J">> -> "PKJ"
      [] cs = <<"N", "K", "B">> -> "NKB"

\* (KJ|PKJ|NKB) with re.IGNORECASE at index pos of t: the indices of CODES that match
CodesAt(t, pos) ==
    { k \in 1..Len(CODES) :
        /\ pos + Len(CODES[k]) - 1 <= Len(t)
        /\ Upper(SubSeq(t, pos, pos + Len(CODES[k]) - 1)) = CODES[k] }

\* the first alternative that matches at pos; group(1).upper()
CodeAt(t, pos) == CODES[CHOOSE k \in CodesAt(t, pos) : \A j \in CodesAt(t, pos) : k <= j]

NoMatch == [matched |-> FALSE]

\* TITLE_RE.match(t) of kjpkjnkb.py:
\*   ^(KJ|PKJ|NKB)\s+(\d+)\s+[-ENDASH]\s+(.*)$   IGNORECASE
TITLE_RE(t) ==
    IF CodesAt(t, 1) = {} THEN NoMatch
    ELSE
      LET code == CodeAt(t, 1)
          i1 == 1 + Len(code)
          i2 == SkipSet(t, i1, WS)
          i3 == SkipSet(t, i2, DIGITS)
          i4 == SkipSet(t, i3, WS)
          i5 == SkipSet(t, i4 + 1, WS)
      IN  IF /\ i2 > i1
             /\ i3 > i2
             /\ i4 > i3
             /\ i4 <= Len(t)
             /\ t[i4] \in {"-", "ENDASH"}
             /\ i5 > i4 + 1
             /\ IndexOf(t, i5, "\n") > Len(t)
          THEN [matched |-> TRUE, g1 |-> SubSeq(t, 1, i1 - 1),
                g2 |-> SubSeq(t, i2, i3 - 1), g3 |-> From(t, i5)]
          ELSE NoMatch

\* the triple split_title returns
Title(buku, no_lagu, judul_text) ==
    [buku |-> buku, no_lagu |-> no_lagu, judul_text |-> judul_text]

\* `x or None` / `x if x else None` on a string
OrNone(s) == IF s = << >> THEN None ELSE Some(s)

\* mutant of split_title_batch: a heading that does not match is dropped
split_title_batch_DropsText(raw_title) ==
    LET t == NormalizeStr(raw_title)
        m == TITLE_RE(t)
    IN  IF ~m.matched THEN Title(None, None, None)
        ELSE Title(Some(CodeName(Upper(m.g1))), Some(IntOf(m.g2)), OrNone(Strip(m.g3)))

\* split_title of kjpkjnkb.py
split_title_batch(raw_title) ==
    LET t == NormalizeStr(raw_title)
        m == TITLE_RE(t)
    IN  IF ~m.matched THEN Title(None, None, OrNone(t))
        ELSE Title(Some(CodeName(Upper(m.g1))), Some(IntOf(m.g2)), OrNone(Strip(m.g3)))

\* the digits group of 0*(\d+) on the digit run t[i2..i3-1]: the zeros are
\* taken by 0* as far as one digit is left for the group
DigitsGroup(t, i2, i3) ==
    LET z == SkipSet(t, i2, {"0"})
    IN  IF z >= i3 THEN SubSeq(t, i3 - 1, i3 - 1) ELSE SubSeq(t, z, i3 - 1)

\* TITLE_RE_STRICT.match(t) of get_nkb_24.py:
\*   ^(KJ|PKJ|NKB)\s+0*(\d+)\s*(?:[-EMDASH ENDASH]|,)\s+(.*)$   IGNORECASE
TITLE_RE_STRICT(t) ==
    IF CodesAt(t, 1) = {} THEN NoMatch
    ELSE
      LET code == CodeAt(t, 1)
          i1 == 1 + Len(code)
          i2 == SkipSet(t, i1, WS)
          i3 == SkipSet(t, i2, DIGITS)
          i4 == SkipSet(t, i3, WS)
          i5 == SkipSet(t, i4 + 1, WS)
      IN  IF /\ i2 > i1
             /\ i3 > i2
             /\ i4 <= Len(t)
             /\ t[i4] \in {"-", "EMDASH", "ENDASH", ","}
             /\ i5 > i4 + 1
             /\ IndexOf(t, i5, "\n") > Len(t)
          THEN [matched |-> TRUE, g1 |-> SubSeq(t, 1, i1 - 1),
                g2 |-> DigitsGroup(t, i2, i3), g3 |-> From(t, i5)]
          ELSE NoMatch

\* the characters regex \w matches, for the \b after the digits
WORD == DIGITS \cup UPPER \cup LOWER \cup {"_"}

\* (KJ|PKJ|NKB)\s+0*(\d+)\b matched at index p of t
FuzzyAt(t, p) ==
    IF CodesAt(t, p) = {} THEN NoMatch
    ELSE
      LET code == CodeAt(t, p)
          i1 == p + Len(code)
          i2 == SkipSet(t, i1, WS)
          i3 == SkipSet(t, i2, DIGITS)
      IN  IF /\ i2 > i1
             /\ i3 > i2
             /\ (i3 > Len(t) \/ t[i3] \notin WORD)
          THEN [matched |-> TRUE, g1 |-> SubSeq(t, p, i1 - 1),
                g2 |-> DigitsGroup(t, i2, i3), end |-> i3]
          ELSE NoMatch

\* TITLE_RE_FUZZY.search(t) of get_nkb_24.py: the leftmost match
TITLE_RE_FUZZY(t) ==
    LET ps == { p \in 1..Len(t) : FuzzyAt(t, p).matched }
    IN  IF ps = {} THEN NoMatch
        ELSE FuzzyAt(t, CHOOSE p \in ps : \A q \in ps : p <= q)

\* mutant of StripSeparator: every leading separator is removed
RECURSIVE StripSeparator_All(_)
StripSeparator_All(rest) ==
    IF rest # << >> /\ rest[1] \in {"-", "EMDASH", "ENDASH", ","}
    THEN StripSeparator_All(From(rest, SkipSet(rest, 2, WS)))
    ELSE rest

\* re.sub(r"^[-EMDASH ENDASH,]\s*", "", rest)
StripSeparator(rest) ==
    IF rest # << >> /\ rest[1] \in {"-", "EMDASH", "ENDASH", ","}
    THEN From(rest, SkipSet(rest, 2, WS))
    ELSE rest

\* str.lstrip()
LStrip(s) == From(s, SkipSet(s, 1, WS))

\* split_title of get_nkb_24.py
split_title_single(raw_title) ==
    LET t == NormalizeStr(raw_title)
        m == TITLE_RE_STRICT(t)
        m2 == TITLE_RE_FUZZY(t)
    IN  IF m.matched
        THEN Title(Some(CodeName(Upper(m.g1))), Some(IntOf(m.g2)), OrNone(Strip(m.g3)))
        ELSE IF m2.matched
        THEN Title(Some(CodeName(Upper(m2.g1))), Some(IntOf(m2.g2)),
                   OrNone(StripSeparator(LStrip(From(t, m2.end)))))
        ELSE Title(None, None, OrNone(t))

\* ------------------------------------------------- lyrics page (alkitab.app)
\* A fetched lyrics page, as far as the code looks at it:
\*   body   : the text of the body in which the marker is looked for
\*   raises : BeautifulSoup raises while parsing the body
\*   lagu   : a div.lagu element exists
\*   liriks : the div.lirik elements inside it, in document order; each has
\*            lirik_no (text of div.lirik_no, or None) and baits, the
\*            div.bait elements in document order; each bait has reff (class
\*            "reff"), no (text of .bait-no, or None) and baris (the texts
\*            of its .baris elements)
\* str.lower() on one character
LowChar(c) == IF c \in UPPER THEN (CHOOSE p \in UpperPairs : p[2] = c)[1] ELSE c

\* str.lower()
Lower(s) == [pos \in 1..Len(s) |-> LowChar(s[pos])]

\* m.group(1) of re.search(r"(\d+)\s*$", s), or None: the digit run that
\* ends where the trailing whitespace starts
TrailingDigits(s) ==
    LET r == RStrip(s)
        ks == { k \in 1..Len(r) : \A j \in k..Len(r) : r[j] \in DIGITS }
    IN  IF ks = {} THEN None
        ELSE Some(From(r, CHOOSE k \in ks : \A j \in ks : k <= j))

\* m.group(0) of re.search(r"\d+", s), or None: the first digit run
FirstDigits(s) ==
    LET ks == { k \in 1..Len(s) : s[k] \in DIGITS }
    IN  IF ks = {} THEN None
        ELSE LET k == CHOOSE k \in ks : \A j \in ks : k <= j
             IN  Some(SubSeq(s, k, SkipSet(s, k, DIGITS) - 1))

\* [x for x in q if x]: the non-empty strings of q, in order
RECURSIVE NonEmpty(_)
NonEmpty(q) ==
    IF q = << >> THEN << >>
    ELSE (IF Head(q) = << >> THEN << >> ELSE << Head(q) >>) \o NonEmpty(Tail(q))

\* one part of parse_alkitab_lirik_blocks, from one div.bait
ParseBait(b) ==
    LET lines == NonEmpty([k \in 1..Len(b.baris) |-> NormalizeStr(b.baris[k])])
        text == IF lines # << >> THEN Some(JoinLines(lines)) ELSE None
        no_raw == normalize_preserve_newlines(b.no)
        no == IF IsNone(no_raw) \/ Val(no_raw) = << >> THEN None
              ELSE IF FirstDigits(Val(no_raw)) # None THEN FirstDigits(Val(no_raw))
              ELSE no_raw
    IN  IF b.reff THEN [type |-> "reff", no |-> None, text |-> text]
        ELSE [type |-> "bait", no |-> no, text |-> text]

\* the elements of q whose reff is as given, in their order
RECURSIVE Select(_, _)
Select(q, reff) ==
    IF q = << >> THEN << >>
    ELSE (IF q[1].reff = reff THEN << q[1] >> ELSE << >>) \o Select(Tail(q), reff)

\* mutant of parse_alkitab_lirik_blocks: the verses come first, the refrains
\* after them
parse_alkitab_lirik_blocks_VersesFirst(lirik_div) ==
    LET lirik_no_raw == normalize_preserve_newlines(lirik_div.lirik_no)
        lirik_no == IF IsNone(lirik_no_raw) \/ Val(lirik_no_raw) = << >> THEN None
                    ELSE IF TrailingDigits(Val(lirik_no_raw)) # None
                         THEN TrailingDigits(Val(lirik_no_raw))
                    ELSE lirik_no_raw
        sorted == Select(lirik_div.baits, FALSE) \o Select(lirik_div.baits, TRUE)
    IN  [lirik_no |-> lirik_no,
         parts |-> [k \in 1..Len(sorted) |-> ParseBait(sorted[k])]]

\* parse_alkitab_lirik_blocks
parse_alkitab_lirik_blocks(lirik_div) ==
    LET lirik_no_raw == normalize_preserve_newlines(lirik_div.lirik_no)
        lirik_no == IF IsNone(lirik_no_raw) \/ Val(lirik_no_raw) = << >> THEN None
                    ELSE IF TrailingDigits(Val(lirik_no_raw)) # None
                         THEN TrailingDigits(Val(lirik_no_raw))
                    ELSE lirik_no_raw
    IN  [lirik_no |-> lirik_no,
         parts |-> [k \in 1..Len(lirik_div.baits) |-> ParseBait(lirik_div.baits[k])]]

\* one iteration of the loop of kppk.py's parse_lirik_blocks: as ParseBait,
\* with normalize_text for the texts
ParseBaitKppk(b) ==
    LET lines == NonEmpty([k \in 1..Len(b.baris) |-> Val(normalize_text(Some(b.baris[k])))])
        text == IF lines # << >> THEN Some(JoinLines(lines)) ELSE None
        no_raw == normalize_text(b.no)
        no == IF IsNone(no_raw) \/ Val(no_raw) = << >> THEN None
              ELSE IF FirstDigits(Val(no_raw)) # None THEN FirstDigits(Val(no_raw))
              ELSE no_raw
    IN  IF b.reff THEN [type |-> "reff", no |-> None, text |-> text]
        ELSE [type |-> "bait", no |-> no, text |-> text]

\* parse_lirik_blocks of kppk.py
parse_lirik_blocks(lirik_div) ==
    LET lirik_no_raw == normalize_text(lirik_div.lirik_no)
        lirik_no == IF IsNone(lirik_no_raw) \/ Val(lirik_no_raw) = << >> THEN None
                    ELSE IF TrailingDigits(Val(lirik_no_raw)) # None
                         THEN TrailingDigits(Val(lirik_no_raw))
                    ELSE lirik_no_raw
    IN  [lirik_no |-> lirik_no,
         parts |-> [k \in 1..Len(lirik_div.baits) |-> ParseBaitKppk(lirik_div.baits[k])]]

\* mutant of parse_alkitab_page: a container without groupings gives None
parse_alkitab_page_EmptyIsNone(page) ==
    IF ~page.lagu \/ page.liriks = << >> THEN None
    ELSE Some([k \in 1..Len(page.liriks) |-> parse_alkitab_lirik_blocks(page.liriks[k])])

\* parse_alkitab_page on a body BeautifulSoup accepts: Optional[List[block]]
parse_alkitab_page(page) ==
    IF ~page.lagu THEN None
    ELSE Some([k \in 1..Len(page.liriks) |-> parse_alkitab_lirik_blocks(page.liriks[k])])

\* s.startswith(prefix)
StartsWith(s, prefix) == Len(s) >= Len(prefix) /\ SubSeq(s, 1, Len(prefix)) = prefix

\* sub in s
Contains(s, sub) ==
    \E k \in 1..(Len(s) - Len(sub) + 1) : SubSeq(s, k, k + Len(sub) - 1) = sub

\* the text page_says_no_such_song looks for
MARKER == <<"n", "o", " ", "s", "u", "c", "h", " ", "s", "o", "n", "g">>

\* mutant of page_says_no_such_song: the body is searched without lower()
page_says_no_such_song_CaseSensitive(page) == Contains(page.body, MARKER)

\* page_says_no_such_song: "no such song" in (html or "").lower()
page_says_no_such_song(page) == Contains(Lower(page.body), MARKER)

\* `not lirik_list`: None or the empty list
Falsy(m) == IsNone(m) \/ Val(m) = << >>

\* all(not blk.get("parts") for blk in lirik_list)
NoParts(lst) == \A k \in 1..Len(lst) : lst[k].parts = << >>

\* -------------------------------------------------------------- HTTP fetch
\* What one call of fetch_html(session, url) meets, after the session's
\* retries: a body (kind "ok"), an HTTP error status that raise_for_status
\* turns into requests.HTTPError (kind "http"), or a connection failure or
\* timeout, raised as requests.ConnectionError (kind "conn").
OkOut(page) == [kind |-> "ok", page |-> page, status |-> 200]
HttpOut(status) == [kind |-> "http", page |-> None, status |-> status]
ConnOut == [kind |-> "conn", page |-> None, status |-> 0]

\* a raised exception: its class, str(e) and, for HTTPError, the status of e.response
Exc(cls, msg, status) == [cls |-> cls, msg |-> msg, status |-> status]

\* fetch_html: the body, or the exception r.raise_for_status() / session.get raise
fetch_html(o) ==
    CASE o.kind = "ok" -> [raised |-> FALSE, html |-> o.page]
      [] o.kind = "http" ->
           [raised |-> TRUE,
            exc |-> Exc("HTTPError", ToString(o.status) \o " Error for url", o.status)]
      [] o.kind = "conn" ->
           [raised |-> TRUE, exc |-> Exc("ConnectionError", "connection failed", 0)]

\* mutant of IsInstance: the broad clause is `except requests.RequestException`
IsInstance_RequestsOnly(e, cls) ==
    \/ e.cls = cls
    \/ cls = "Exception" /\ e.cls \in {"HTTPError", "ConnectionError"}

\* isinstance(e, cls) for the classes of the except clauses: every modelled
\* exception derives from Exception, requests.HTTPError only matches itself
IsInstance(e, cls) == cls = "Exception" \/ e.cls = cls

\* the first except clause of `clauses` that catches e, or "" (e propagates)
RECURSIVE Handler(_, _)
Handler(e, clauses) ==
    IF clauses = << >> THEN ""
    ELSE IF IsInstance(e, Head(clauses)) THEN Head(clauses)
    ELSE Handler(e, Tail(clauses))

\* "no such song" in str(e).lower(), for the messages that occur
MsgSaysNoSuchSong(msg) == msg \in {"no such song (base)", "no such song"}

\* bool(response): requests.Response.__bool__ is response.ok, false for 4xx/5xx
ResponseTruthy(status) == status < 400

\* ----------------------------------------------------- resolver, kjpkjnkb.py
B_NoSuchBase == "alkitab.app responded 'no such song' (base); retry with 'A' suffix."
B_NoLaguBase == "no .lagu/.lirik found at alkitab.app (base)"
B_NoPartsBase == "no parts (bait/reff) found at alkitab.app (base)"
B_404Base == "HTTP 404 at alkitab.app (base); retry with 'A' suffix."
B_HttpBase(code) == "alkitab.app fetch failed (base): HTTP " \o code
B_ErrBase(msg) == "alkitab.app parse error (base): " \o msg
B_NoSuchA == "alkitab.app responded 'no such song' (A variant)."
B_NoLaguA == "no .lagu/.lirik found at alkitab.app (A variant)."
B_NoPartsA == "no parts (bait/reff) found at alkitab.app (A variant)."
B_UsedA == "used 'A' suffix fallback."
B_HttpA(code) == "alkitab.app fetch failed (A variant): HTTP " \o code
B_ErrA(msg) == "alkitab.app parse error (A variant): " \o msg

\* mutant of build_alkitab_url: the 'A' is already part of the first URL
build_alkitab_url_WithSuffix(buku, no_lagu) ==
    "https://alkitab.app/" \o buku \o "/" \o ToString(no_lagu) \o "A"

\* build_alkitab_url; buku is the name of a songbook code in capitals, which
\* buku.upper() leaves as it is, and no_lagu an int
build_alkitab_url(buku, no_lagu) == "https://alkitab.app/" \o buku \o "/" \o ToString(no_lagu)

\* what a stage of the resolver ends in: it returns (lirik, url, warns), goes
\* on to the next stage with warns, or lets an exception out
Return(lirik, url, warns) == [end |-> "return", lirik |-> lirik, url |-> url, warns |-> warns]
FallThrough(warns) == [end |-> "next", lirik |-> None, url |-> "", warns |-> warns]
Propagate(warns) == [end |-> "raise", lirik |-> None, url |-> "", warns |-> warns]

\* mutant of ParseWarns: blocks without parts pass without a warning
ParseWarns_PartsUnchecked(lst, noLagu, noParts) ==
    IF Falsy(lst) THEN << noLagu >> ELSE << >>

\* mutant of ParseWarns: `if lst is None`, so that an empty list passes
\* without a warning
ParseWarns_NoneOnly(lst, noLagu, noParts) ==
    IF IsNone(lst) THEN << noLagu >>
    ELSE IF Val(lst) # << >> /\ NoParts(Val(lst)) THEN << noParts >>
    ELSE << >>

\* the warnings a parse result adds: `if not lst` / `elif all(no parts)`
ParseWarns(lst, noLagu, noParts) ==
    IF Falsy(lst) THEN << noLagu >>
    ELSE IF NoParts(Val(lst)) THEN << noParts >>
    ELSE << >>

\* fetch_lyrics_from_alkitab of kjpkjnkb.py, first attempt (lines 270-299)
B_Stage1(url_base, o) ==
    LET f == fetch_html(o)
        e == IF f.raised THEN f.exc
             ELSE IF page_says_no_such_song(f.html)
                  THEN Exc("ValueError", "no such song (base)", 0)
             ELSE Exc("ParserError", "markup rejected", 0)
        h == Handler(e, << "HTTPError", "Exception" >>)
        code == ToString(e.status)
        tryWarns == IF ~f.raised /\ page_says_no_such_song(f.html)
                    THEN << B_NoSuchBase >> ELSE << >>
    IN  IF ~f.raised /\ ~page_says_no_such_song(f.html) /\ ~f.html.raises
        THEN LET lirik_list == parse_alkitab_page(f.html)
             IN  Return(lirik_list, url_base,
                        ParseWarns(lirik_list, B_NoLaguBase, B_NoPartsBase))
        ELSE IF h = "HTTPError"
        THEN FallThrough(tryWarns \o << IF code = "404" THEN B_404Base
                                                     ELSE B_HttpBase(code) >>)
        ELSE IF h = "Exception"
        THEN FallThrough(tryWarns \o (IF MsgSaysNoSuchSong(e.msg) THEN << >>
                                      ELSE << B_ErrBase(e.msg) >>))
        ELSE Propagate(tryWarns)

\* mutant of B_Stage2: the 'used fallback' note is appended before the check
\* for the marker, so also when the 'A' page says 'no such song'
B_Stage2_NoteFirst(url_a, o, warns) ==
    LET f == fetch_html(o)
        e == IF f.raised THEN f.exc ELSE Exc("ParserError", "markup rejected", 0)
        h == Handler(e, << "HTTPError", "Exception" >>)
        code == ToString(e.status)
    IN  IF ~f.raised /\ page_says_no_such_song(f.html)
        THEN Return(None, url_a, warns \o << B_UsedA, B_NoSuchA >>)
        ELSE IF ~f.raised /\ ~f.html.raises
        THEN LET lirik_list_a == parse_alkitab_page(f.html)
             IN  Return(lirik_list_a, url_a,
                        warns \o << B_UsedA >>
                              \o ParseWarns(lirik_list_a, B_NoLaguA, B_NoPartsA))
        ELSE IF h = "HTTPError"
        THEN Return(None, url_a, warns \o << B_HttpA(code) >>)
        ELSE IF h = "Exception"
        THEN Return(None, url_a, warns \o << B_ErrA(e.msg) >>)
        ELSE Propagate(warns)

\* fetch_lyrics_from_alkitab of kjpkjnkb.py, second attempt (lines 301-322)
B_Stage2(url_a, o, warns) ==
    LET f == fetch_html(o)
        e == IF f.raised THEN f.exc ELSE Exc("ParserError", "markup rejected", 0)
        h == Handler(e, << "HTTPError", "Exception" >>)
        code == ToString(e.status)
    IN  IF ~f.raised /\ page_says_no_such_song(f.html)
        THEN Return(None, url_a, warns \o << B_NoSuchA >>)
        ELSE IF ~f.raised /\ ~f.html.raises
        THEN LET lirik_list_a == parse_alkitab_page(f.html)
             IN  Return(lirik_list_a, url_a,
                        warns \o ParseWarns(lirik_list_a, B_NoLaguA, B_NoPartsA)
                              \o << B_UsedA >>)
        ELSE IF h = "HTTPError"
        THEN Return(None, url_a, warns \o << B_HttpA(code) >>)
        ELSE IF h = "Exception"
        THEN Return(None, url_a, warns \o << B_ErrA(e.msg) >>)
        ELSE Propagate(warns)

\* --------------------------------------------------- resolver, get_nkb_24.py
S_NoSuchBase == "alkitab.app says 'no such song' (base); will try 'A'."
S_NoLaguBase == "no .lagu/.lirik found (base)"
S_NoPartsBase == "no parts found (base)"
S_404Base == "HTTP 404 (base); will try 'A'."
S_HttpBase(code) == "HTTP " \o code \o " (base)"
S_ErrBase(msg) == "parse error (base): " \o msg
S_NoSuchA == "alkitab.app says 'no such song' (A)."
S_NoLaguA == "no .lagu/.lirik found (A)"
S_NoPartsA == "no parts found (A)"
S_UsedA == "used 'A' suffix fallback."
S_ErrA(msg) == "A-suffix fetch/parse error: " \o msg

\* fetch_lyrics_from_alkitab of get_nkb_24.py, first attempt (lines 216-236);
\* the status is read through `if e.response`, the response's truth value
S_Stage1(base, o) ==
    LET f == fetch_html(o)
        e == IF f.raised THEN f.exc
             ELSE IF page_says_no_such_song(f.html)
                  THEN Exc("ValueError", "no such song", 0)
             ELSE Exc("ParserError", "markup rejected", 0)
        h == Handler(e, << "HTTPError", "Exception" >>)
        code == IF ResponseTruthy(e.status) THEN ToString(e.status) ELSE "?"
        tryWarns == IF ~f.raised /\ page_says_no_such_song(f.html)
                    THEN << S_NoSuchBase >> ELSE << >>
    IN  IF ~f.raised /\ ~page_says_no_such_song(f.html) /\ ~f.html.raises
        THEN LET lst == parse_alkitab_page(f.html)
             IN  Return(lst, base, ParseWarns(lst, S_NoLaguBase, S_NoPartsBase))
        ELSE IF h = "HTTPError"
        THEN FallThrough(tryWarns \o << IF code = "404" THEN S_404Base
                                                     ELSE S_HttpBase(code) >>)
        ELSE IF h = "Exception"
        THEN FallThrough(tryWarns \o (IF MsgSaysNoSuchSong(e.msg) THEN << >>
                                      ELSE << S_ErrBase(e.msg) >>))
        ELSE Propagate(tryWarns)

\* mutant of S_Stage2: the 'used fallback' note is appended before the
\* warnings about what parsing the 'A' page found
S_Stage2_UsedFirst(aurl, o, warns) ==
    LET f == fetch_html(o)
        e == IF f.raised THEN f.exc ELSE Exc("ParserError", "markup rejected", 0)
        h == Handler(e, << "Exception" >>)
    IN  IF ~f.raised /\ page_says_no_such_song(f.html)
        THEN Return(None, aurl, warns \o << S_NoSuchA >>)
        ELSE IF ~f.raised /\ ~f.html.raises
        THEN LET lst2 == parse_alkitab_page(f.html)
             IN  Return(lst2, aurl,
                        warns \o << S_UsedA >> \o ParseWarns(lst2, S_NoLaguA, S_NoPartsA))
        ELSE IF h = "Exception"
        THEN Return(None, aurl, warns \o << S_ErrA(e.msg) >>)
        ELSE Propagate(warns)

\* fetch_lyrics_from_alkitab of get_nkb_24.py, second attempt (lines 238-253)
S_Stage2(aurl, o, warns) ==
    LET f == fetch_html(o)
        e == IF f.raised THEN f.exc ELSE Exc("ParserError", "markup rejected", 0)
        h == Handler(e, << "Exception" >>)
    IN  IF ~f.raised /\ page_says_no_such_song(f.html)
        THEN Return(None, aurl, warns \o << S_NoSuchA >>)
        ELSE IF ~f.raised /\ ~f.html.raises
        THEN LET lst2 == parse_alkitab_page(f.html)
             IN  Return(lst2, aurl,
                        warns \o ParseWarns(lst2, S_NoLaguA, S_NoPartsA) \o << S_UsedA >>)
        ELSE IF h = "Exception"
        THEN Return(None, aurl, warns \o << S_ErrA(e.msg) >>)
        ELSE Propagate(warns)

\* ------------------------------------------------------------- source page
\* A fetched source page, as far as the code looks at it:
\*   article : an article element exists
\*   h1      : the text of its h1 (None when there is none)
\*   paras   : the texts of the p elements of the content, in document order

IsTuneLine(l) == StartsWith(l, <<"d", "o", " ", "=">>)
IsBeatLine(l) == Contains(l, <<"k", "e", "t", "u", "k">>)

\* the lines whose lowered, stripped text starts with "do ="
TuneLines(lines) == { k \in 1..Len(lines) : IsTuneLine(Lower(Strip(lines[k]))) }

\* the lines whose lowered, stripped text contains "ketuk"
BeatLines(lines) == { k \in 1..Len(lines) : IsBeatLine(Lower(Strip(lines[k]))) }

\* the first of the lines ks, stripped, or None: the loop assigns only while
\* the field is still None
FirstLine(lines, ks) ==
    IF ks = {} THEN None
    ELSE Some(Strip(lines[CHOOSE k \in ks : \A j \in ks : k <= j]))

\* title_el.get_text(strip=True) if title_el else ""
RawTitle(page) == IF IsNone(page.h1) THEN << >> ELSE Strip(Val(page.h1))

\* extract_metadata_from_source, for a page with an article element;
\* t is what the variant's split_title makes of the raw title
extract_metadata_from_source(page, t) ==
    LET p_texts == NonEmpty([k \in 1..Len(page.paras) |-> NormalizeStr(page.paras[k])])
        lines == SplitLines(JoinLines(p_texts))
    IN  [buku |-> t.buku, no_lagu |-> t.no_lagu, judul_text |-> t.judul_text,
         info |-> IF p_texts # << >> THEN Some(p_texts[1]) ELSE None,
         tune |-> FirstLine(lines, TuneLines(lines)),
         beat |-> FirstLine(lines, BeatLines(lines)),
         raw_title |-> RawTitle(page)]

\* ------------------------------------------------ validation and the DB row
\* `not meta.get("buku")`: None or ""
MissingName(m) == IsNone(m) \/ Val(m) = ""

\* `not meta.get(k)` for a text field: None or ""
Missing(m) == IsNone(m) \/ Val(m) = << >>

\* the messages `cond` adds
Msg(cond, text) == IF cond THEN << text >> ELSE << >>

\* enforce_required_fields of kjpkjnkb.py
enforce_required_fields(m, lirik_list) ==
    Msg(MissingName(m.buku), "Missing buku")
    \o Msg(IsNone(m.no_lagu), "Missing no_lagu")
    \o Msg(Missing(m.judul_text), "Missing judul_text")
    \o Msg(Missing(m.info), "Missing info")
    \o (IF Falsy(lirik_list) THEN << "No lirik found" >>
        ELSE IF NoParts(Val(lirik_list)) THEN << "No lirik parts found" >>
        ELSE << >>)

\* validate of get_nkb_24.py
validate(m, lirik) ==
    Msg(MissingName(m.buku), "Missing buku")
    \o Msg(IsNone(m.no_lagu), "Missing no_lagu")
    \o Msg(Missing(m.judul_text), "Missing judul_text")
    \o Msg(Missing(m.info), "Missing info")
    \o Msg(Falsy(lirik) \/ NoParts(Val(lirik)), "No lirik found")

\* "; ".join(ws)
RECURSIVE JoinWarnings(_)
JoinWarnings(ws) ==
    IF ws = << >> THEN ""
    ELSE IF Len(ws) = 1 THEN ws[1]
    ELSE ws[1] \o "; " \o JoinWarnings(Tail(ws))

\* json.dumps(lirik_list or [], ensure_ascii=False): the text of the list,
\* where None and [] both give the text of the empty list
json_dumps(lirik_list) == << "json", IF Falsy(lirik_list) THEN << >> ELSE Val(lirik_list) >>

\* mutant of to_db_row: the warnings are joined also when there are none,
\* which stores the empty text for NULL
to_db_row_JoinsAlways(m, source_url, lirik_list, lyrics_source_url, extra_warnings, now) ==
    [buku |-> m.buku,
     no_lagu |-> m.no_lagu,
     judul_text |-> m.judul_text,
     info |-> m.info,
     tune |-> m.tune,
     beat |-> m.beat,
     lirik_json |-> Some(json_dumps(lirik_list)),
     source_url |-> Some(source_url),
     lyrics_source_url |-> lyrics_source_url,
     fetched_at |-> Some(now),
     warnings |-> Some(JoinWarnings(extra_warnings))]

\* to_db_row of kjpkjnkb.py (and the row literal of main in get_nkb_24.py);
\* now is datetime.utcnow().  Every value is None (SQL NULL) or Some(value).
to_db_row(m, source_url, lirik_list, lyrics_source_url, extra_warnings, now) ==
    [buku |-> m.buku,
     no_lagu |-> m.no_lagu,
     judul_text |-> m.judul_text,
     info |-> m.info,
     tune |-> m.tune,
     beat |-> m.beat,
     lirik_json |-> Some(json_dumps(lirik_list)),
     source_url |-> Some(source_url),
     lyrics_source_url |-> lyrics_source_url,
     fetched_at |-> Some(now),
     warnings |-> IF extra_warnings # << >> THEN Some(JoinWarnings(extra_warnings))
                  ELSE None]

\* ------------------------------------------------------------ hymns table
\* The table is the set of its rows; the id column, which the code never
\* reads or writes, is left out.

\* mutant of NOT_NULL: no_lagu may be NULL
NOT_NULL_NumberFree == {"buku", "judul_text", "lirik_json", "source_url", "fetched_at"}

\* SCHEMA_SQL: the NOT NULL columns
NOT_NULL == {"buku", "no_lagu", "judul_text", "lirik_json", "source_url", "fetched_at"}

\* SCHEMA_SQL: UNIQUE (buku, no_lagu)
SameKey(r, row) == r.buku = row.buku /\ r.no_lagu = row.no_lagu

\* mutant of upsert_hymn: the statement has no ON CONFLICT clause and the
\* table no UNIQUE constraint
upsert_hymn_InsertOnly(st, row) ==
    IF \E c \in NOT_NULL : IsNone(row[c])
    THEN [raised |-> TRUE, exc |-> Exc("IntegrityError", "NOT NULL constraint failed", 0),
          store |-> st]
    ELSE [raised |-> FALSE, exc |-> Exc("", "", 0), store |-> st \cup {row}]

\* mutant of upsert_hymn: on conflict an empty lyrics list does not replace
\* stored lyrics (lirik_json is merged, not overwritten)
upsert_hymn_KeepsLyrics(st, row) ==
    IF \E c \in NOT_NULL : IsNone(row[c])
    THEN [raised |-> TRUE, exc |-> Exc("IntegrityError", "NOT NULL constraint failed", 0),
          store |-> st]
    ELSE IF \E r \in st : SameKey(r, row)
    THEN [raised |-> FALSE, exc |-> Exc("", "", 0),
          store |-> { IF SameKey(r, row)
                      THEN [row EXCEPT !.lirik_json =
                                IF row.lirik_json = Some(json_dumps(None))
                                THEN r.lirik_json ELSE row.lirik_json]
                      ELSE r : r \in st }]
    ELSE [raised |-> FALSE, exc |-> Exc("", "", 0), store |-> st \cup {row}]

\* mutant of upsert_hymn: the table is emptied before the row is inserted
upsert_hymn_Truncates(st, row) ==
    IF \E c \in NOT_NULL : IsNone(row[c])
    THEN [raised |-> TRUE, exc |-> Exc("IntegrityError", "NOT NULL constraint failed", 0),
          store |-> st]
    ELSE [raised |-> FALSE, exc |-> Exc("", "", 0), store |-> { row }]

\* upsert_hymn: the INSERT ... ON CONFLICT(buku, no_lagu) DO UPDATE statement
\* and the commit.  A NULL in a NOT NULL column aborts the statement with
\* sqlite3.IntegrityError and changes nothing.
upsert_hymn(st, row) ==
    IF \E c \in NOT_NULL : IsNone(row[c])
    THEN [raised |-> TRUE, exc |-> Exc("IntegrityError", "NOT NULL constraint failed", 0),
          store |-> st]
    ELSE IF \E r \in st : SameKey(r, row)
    THEN [raised |-> FALSE, exc |-> Exc("", "", 0),
          store |-> { IF SameKey(r, row)
                      THEN [r EXCEPT !.judul_text = row.judul_text,
                                     !.info = row.info,
                                     !.tune = row.tune,
                                     !.beat = row.beat,
                                     !.lirik_json = row.lirik_json,
                                     !.source_url = row.source_url,
                                     !.lyrics_source_url = row.lyrics_source_url,
                                     !.fetched_at = row.fetched_at,
                                     !.warnings = row.warnings]
                      ELSE r : r \in st }]
    ELSE [raised |-> FALSE, exc |-> Exc("", "", 0), store |-> st \cup {row}]

\* ------------------------------------------------------------------ inputs
Chars(n) ==
    CASE n = "KJ2" -> <<"K", "J", " ", "0", "0", "2", " ", "-", " ", "M", "a", "r", "i", " ",
                        "K", "i", "t", "a">>
      [] n = "kj2" -> <<"k", "j", " ", "2", " ", "ENDASH", " ", "M", "a", "r", "i">>
      [] n = "PKJ10" -> <<"P", "K", "J", " ", "1", "0", " ", "-", " ", "Y", "a">>
      [] n = "NKB24" -> <<"N", "K", "B", " ", "0", "2", "4", ",", " ", "T", "u", "h", "a", "n">>
      [] n = "syair" -> <<"S", "y", "a", "i", "r", ":", " ", "X">>
      [] n = "do" -> <<"D", "o", " ", "=", " ", "C">>
      [] n = "ketuk" -> <<"4", " ", "k", "e", "t", "u", "k">>
      [] n = "v1" -> <<"M", "a", "r", "i">>
      [] n = "v2" -> <<"K", "i", "t", "a">>
      [] n = "r" -> <<"R", "e", "f", "f">>
      [] n = "nosuch" -> <<"N", "o", " ", "s", "u", "c", "h", " ", "s", "o", "n", "g", "!">>
      [] n = "html" -> <<"<", "d", "i", "v", ">">>
      [] n = "1" -> <<"1">>
      [] n = "2" -> <<"2">>

SourcePage(article, h1, paras) == [article |-> article, h1 |-> h1, paras |-> paras]

\* the source pages the site may serve
SourcePages ==
    { SourcePage(TRUE, Some(Chars("KJ2")), << Chars("syair"), Chars("do"), Chars("ketuk") >>),
      SourcePage(TRUE, Some(Chars("KJ2")), << >>),
      SourcePage(TRUE, Some(Chars("kj2")), << >>),
      SourcePage(TRUE, Some(Chars("PKJ10")), << Chars("syair") >>),
      SourcePage(TRUE, Some(Chars("NKB24")), << Chars("syair") >>),
      SourcePage(TRUE, None, << Chars("syair") >>),
      SourcePage(FALSE, None, << >>) }

LyricsPage(body, raises, has_lagu, liriks) ==
    [body |-> body, raises |-> raises, lagu |-> has_lagu, liriks |-> liriks]

Bait(reff, no, baris) == [reff |-> reff, no |-> no, baris |-> baris]

Lirik(lirik_no, baits) == [lirik_no |-> lirik_no, baits |-> baits]

PageNoSuchSong == LyricsPage(Chars("nosuch"), FALSE, FALSE, << >>)
PageRejected == LyricsPage(Chars("html"), TRUE, FALSE, << >>)
PageNoLagu == LyricsPage(Chars("html"), FALSE, FALSE, << >>)
PageNoLirik == LyricsPage(Chars("html"), FALSE, TRUE, << >>)
PageNoBait == LyricsPage(Chars("html"), FALSE, TRUE, << Lirik(None, << >>) >>)
PageTwoVerses ==
    LyricsPage(Chars("html"), FALSE, TRUE,
               << Lirik(None, << Bait(FALSE, Some(Chars("1")), << Chars("v1") >>),
                                 Bait(FALSE, Some(Chars("2")), << Chars("v2") >>) >>) >>)
PageWithReff ==
    LyricsPage(Chars("html"), FALSE, TRUE,
               << Lirik(Some(Chars("1")),
                        << Bait(FALSE, Some(Chars("1")), << Chars("v1") >>),
                           Bait(TRUE, None, << Chars("r") >>),
                           Bait(FALSE, Some(Chars("2")), << Chars("v2") >>) >>) >>)

\* the lyrics pages alkitab.app may serve
LyricsPages ==
    { PageNoSuchSong, PageRejected, PageNoLagu, PageNoLirik, PageNoBait,
      PageTwoVerses, PageWithReff }

\* what a fetch of a source page may meet
SourceOutcomes == { OkOut(p) : p \in SourcePages } \cup { HttpOut(404), HttpOut(500), ConnOut }

\* what a fetch of a lyrics page may meet
LyricsOutcomes == { OkOut(p) : p \in LyricsPages } \cup { HttpOut(404), HttpOut(500), ConnOut }

\* the lyrics outcomes of the runs over several links
FewLyricsOutcomes == { OkOut(PageTwoVerses), OkOut(PageNoLagu), HttpOut(404) }

\* the link files: lists of links, comments and blank lines left out
URLS == << "u1", "u2", "u3", "u4" >>
LinkLists == { SubSeq(URLS, 1, n) : n \in 0..MaxLinks }

\* SOURCE_URL of get_nkb_24.py
SOURCE_URL == "https://www.gkiharapanindah.org/.../nkb-024-tuhan-kasihanilah-kami/"

\* ------------------------------------------------------------------- state
VARIABLES
    variant,    \* "batch" (kjpkjnkb.py) or "single" (get_nkb_24.py)
    hymnal,     \* process_file's hymnal, the expected_buku of scrape_one
    links,      \* the links process_file works through
    pc,         \* "start", "source", "base", "alt", "save", "done", "crashed"
    i,          \* index in links of the link being handled (enumerate, from 1)
    ok,         \* process_file's ok
    err,        \* process_file's err
    store,      \* the rows of table hymns
    clock,      \* datetime.utcnow() of the last row built
    srcOut,     \* what the fetch of the source page met, None before it
    meta,       \* scrape_one's meta, None before extraction
    warns,      \* fetch_lyrics_from_alkitab's warns when its first attempt ended
                \* without a return
    fetched,    \* the URLs fetch_lyrics_from_alkitab has fetched in this call
    baseOut,    \* what the fetch of the canonical URL met, None before it
    altOut,     \* what the fetch of the 'A' URL met, None before it
    res,        \* (lirik_list, lyrics_source_url, lyric_warns) of scrape_one
    attempted,  \* the links handed to scrape_one so far, in order
    last,       \* how the handling of the previous link ended
    \* several processes writing one database file
    wpc,        \* per worker: "idle", "executed" (statement run, commit due), "failed"
    wrow,       \* per worker: the row of its upsert_hymn call, None when idle
    wn,         \* per worker: the upsert_hymn calls it has made
    lock,       \* the worker holding the database's write lock, None when free
    pending,    \* per worker: the table as its open transaction has it
    committed,  \* the rows of the committed upserts, in commit order
    \* one call of a pure function
    fop,        \* the function called, "" before the call
    fin,        \* its argument
    fout,       \* what it returned, None before the call
    \* one call of a fetch function
    fetcher,    \* "fetch" (kppk.py) or "fetch_html" (kjpkjnkb.py, get_nkb_24.py)
    sent,       \* what each request sent so far was answered with, in order
    fpc,        \* "try", "returned" or "raised"
    \* the crawl of kppk.py
    cpc,        \* "" (not running), "run", "done" or "crashed"
    ct,         \* index in TARGETS of the songbook at work
    cnum,       \* the page number at work
    lagu,       \* the rows of table lagu
    clast,      \* what the previous turn of the loop did
    written,    \* the upsert_record calls that succeeded: arguments and row key
    \* one run of liturgy_tool.py
    dpc,        \* "" (not running), "start", "props", "done" or "failed"
    ddate,      \* date_str
    dsched,     \* the schedule workbook
    dtemplate,  \* template_path
    dfiles,     \* the files: path and archive
    dprops,     \* what get_properties_for_date returned, None before
    dout        \* what update_word_file returned, None before

\* the state of the scrapers' runs, of the workers, of a function call, of a fetch
runVars == << variant, hymnal, links, pc, i, ok, err, clock, srcOut, meta, warns,
              fetched, baseOut, altOut, res, attempted, last >>
workerVars == << wpc, wrow, wn, lock, pending, committed >>
callVars == << fop, fin, fout >>
fetchVars == << fetcher, sent, fpc >>
crawlVars == << cpc, ct, cnum, lagu, clast, written >>
docVars == << dpc, ddate, dsched, dtemplate, dfiles, dprops, dout >>

vars == << runVars, store, workerVars, callVars, fetchVars, crawlVars, docVars >>

\* the hymnals of main's loop
HYMNALS == { "KJ", "PKJ", "NKB" }

NoLast ==
    [phase |-> "none", exc |-> "", fault |-> FALSE, row |-> None, prev |-> None,
     msgs |-> << >>, counted |-> "none", url |-> "", src |-> None, base |-> None,
     alt |-> None, res |-> None]

\* no worker, no function call, no fetch is under way
NoWorkers ==
    /\ wpc = << >>
    /\ wrow = << >>
    /\ wn = << >>
    /\ lock = None
    /\ pending = << >>
    /\ committed = << >>

NoCall == fop = "" /\ fin = None /\ fout = None

NoFetch == fetcher = "" /\ sent = << >> /\ fpc = ""

NoCrawl ==
    /\ cpc = "" /\ ct = 0 /\ cnum = 0 /\ lagu = {} /\ clast = None /\ written = << >>

NoDoc ==
    /\ dpc = "" /\ ddate = << >> /\ dsched = None /\ dtemplate = None /\ dfiles = {}
    /\ dprops = None /\ dout = None

Init ==
    /\ variant \in { "batch", "single" }
    /\ IF variant = "batch"
       THEN hymnal \in HYMNALS /\ links \in LinkLists
       ELSE hymnal = "" /\ links = << SOURCE_URL >>
    /\ pc = "start"
    /\ i = 0
    /\ ok = 0
    /\ err = 0
    /\ store = {}
    /\ clock = 0
    /\ srcOut = None
    /\ meta = None
    /\ warns = << >>
    /\ fetched = << >>
    /\ baseOut = None
    /\ altOut = None
    /\ res = None
    /\ attempted = << >>
    /\ last = NoLast
    /\ NoWorkers
    /\ NoCall
    /\ NoFetch
    /\ NoCrawl
    /\ NoDoc

\* min(5, len(links)) of process_file's testing mode
SAMPLE == 5

\* random.sample(l, k): k elements at distinct positions, in any order
Samples(l, k) ==
    { [j \in 1..k |-> l[f[j]]] :
        f \in { g \in [1..k -> 1..Len(l)] : \A a, b \in 1..k : a # b => g[a] # g[b] } }

Min(a, b) == IF a <= b THEN a ELSE b

\* process_file up to its loop (lines 411-422) with testing drawn by the run;
\* main of get_nkb_24.py up to its fetch of SOURCE_URL (lines 308-312)
Start ==
    /\ pc = "start"
    /\ IF variant = "batch"
       THEN IF links = << >>
            THEN pc' = "done" /\ i' = i /\ links' = links
            ELSE /\ \E testing \in BOOLEAN :
                      links' \in IF testing THEN Samples(links, Min(SAMPLE, Len(links)))
                                 ELSE { links }
                 /\ pc' = "source"
                 /\ i' = 1
       ELSE pc' = "source" /\ i' = 1 /\ links' = links
    /\ UNCHANGED << variant, hymnal, ok, err, store, clock, srcOut, meta, warns,
                    fetched, baseOut, altOut, res, attempted, last >>
    /\ UNCHANGED << workerVars, callVars, fetchVars, crawlVars, docVars >>

\* mutant of Clauses: process_file catches requests.HTTPError only
Clauses_HttpOnly(v) == IF v = "batch" THEN << "HTTPError" >> ELSE << >>

\* the except clauses around the handling of one link: process_file's
\* (lines 433-439); main of get_nkb_24.py has none
Clauses(v) == IF v = "batch" THEN << "HTTPError", "Exception" >> ELSE << >>

\* The handling of link i ends: saved (upsert_hymn returned) or failed with
\* exception e.  process_file counts it and goes on to the next link after
\* time.sleep; an exception no clause catches ends the run.  src, base, alt
\* and looked are what the fetches of this link met and what the lookup gave.
EndLink(phase, e, fault, row, msgs, newStore, src, base, alt, looked) ==
    LET failed == phase # "saved"
        caught == failed /\ Handler(e, Clauses(variant)) # ""
        abort == failed /\ ~caught
        prev == IF IsNone(row) THEN None
                ELSE LET rs == { x \in store : SameKey(x, Val(row)) }
                     IN  IF rs = {} THEN None ELSE Some(CHOOSE x \in rs : TRUE)
    IN  /\ ok' = IF ~failed /\ variant = "batch" THEN ok + 1 ELSE ok
        /\ err' = IF caught THEN err + 1 ELSE err
        /\ pc' = IF abort THEN "crashed"
                 ELSE IF i + 1 > Len(links) THEN "done" ELSE "source"
        /\ i' = IF abort THEN i ELSE i + 1
        /\ store' = newStore
        /\ last' = [phase |-> phase, exc |-> e.cls, fault |-> fault, row |-> row,
                    prev |-> prev, msgs |-> msgs,
                    counted |-> IF abort THEN "abort" ELSE IF failed THEN "err" ELSE "ok",
                    url |-> links[i], src |-> src, base |-> base, alt |-> alt,
                    res |-> looked]
        /\ srcOut' = None
        /\ baseOut' = None
        /\ altOut' = None
        /\ res' = None
        /\ meta' = None
        /\ warns' = << >>
        /\ fetched' = << >>

NoExc == Exc("", "", 0)

\* the variant's split_title
split_title(raw_title) ==
    IF variant = "batch" THEN split_title_batch(raw_title) ELSE split_title_single(raw_title)

\* scrape_one lines 381-382 (main lines 313-314) raise: fetch_html fails, or
\* extract_metadata_from_source finds no article element
SourceFails(o) ==
    /\ pc = "source"
    /\ IF fetch_html(o).raised THEN TRUE ELSE ~o.page.article
    /\ attempted' = Append(attempted, links[i])
    /\ IF fetch_html(o).raised
       THEN EndLink("source", fetch_html(o).exc, FALSE, None, << >>, store,
                    Some(o), None, None, None)
       ELSE EndLink("article", Exc("ValueError", "Article element not found.", 0),
                    FALSE, None, << >>, store, Some(o), None, None, None)
    /\ UNCHANGED << variant, hymnal, links, clock >>
    /\ UNCHANGED << workerVars, callVars, fetchVars, crawlVars, docVars >>

\* scrape_one lines 385-390: the buku expected from the file name stands in
\* for a missing one
WithExpected(m, expected_buku) ==
    IF MissingName(m.buku) /\ expected_buku # ""
    THEN [m EXCEPT !.buku = Some(expected_buku)]
    ELSE m

\* scrape_one lines 381-401 (main lines 313-326): the source page is fetched
\* and its metadata extracted; the lyrics are looked up next, or skipped when
\* buku or no_lagu is missing
SourceOk(o) ==
    /\ pc = "source"
    /\ ~fetch_html(o).raised
    /\ o.page.article
    /\ attempted' = Append(attempted, links[i])
    /\ srcOut' = Some(o)
    /\ LET m == WithExpected(extract_metadata_from_source(o.page, split_title(RawTitle(o.page))),
                                hymnal)
       IN  /\ meta' = Some(m)
           /\ IF ~MissingName(m.buku) /\ ~IsNone(m.no_lagu)
              THEN pc' = "base" /\ res' = None
              ELSE /\ pc' = "save"
                   /\ res' = Some([lirik |-> None, url |-> None,
                                    warns |-> << "Cannot fetch alkitab.app lyrics: buku/no_lagu not available." >>])
    /\ UNCHANGED << variant, hymnal, links, i, ok, err, store, clock, warns, fetched,
                    baseOut, altOut, last >>
    /\ UNCHANGED << workerVars, callVars, fetchVars, crawlVars, docVars >>

\* the first attempt of the variant's fetch_lyrics_from_alkitab
Stage1(url_base, o) ==
    IF variant = "batch" THEN B_Stage1(url_base, o) ELSE S_Stage1(url_base, o)

\* the second attempt of the variant's fetch_lyrics_from_alkitab
Stage2(url_a, o, w) ==
    IF variant = "batch" THEN B_Stage2(url_a, o, w) ELSE S_Stage2(url_a, o, w)

\* the canonical URL of the song in meta
UrlBase == build_alkitab_url(Val(Val(meta).buku), Val(Val(meta).no_lagu))

\* f"{url_base}A"
UrlA == UrlBase \o "A"

\* One attempt of fetch_lyrics_from_alkitab ends as r says: the function
\* returns its tuple to scrape_one, goes on to the 'A' URL, or lets an
\* exception out to the caller of scrape_one.  base and alt are what the
\* fetches met so far, url the URL of this attempt.
Attempt(r, base, alt, url) ==
    CASE r.end = "return" ->
           /\ res' = Some([lirik |-> r.lirik, url |-> Some(r.url), warns |-> r.warns])
           /\ pc' = "save"
           /\ warns' = warns
           /\ fetched' = Append(fetched, url)
           /\ baseOut' = base
           /\ altOut' = alt
           /\ UNCHANGED << i, ok, err, store, last, meta, srcOut >>
      [] r.end = "next" ->
           /\ res' = None
           /\ pc' = "alt"
           /\ warns' = r.warns
           /\ fetched' = Append(fetched, url)
           /\ baseOut' = base
           /\ altOut' = alt
           /\ UNCHANGED << i, ok, err, store, last, meta, srcOut >>
      [] r.end = "raise" ->
           EndLink("resolver", Exc("ParserError", "markup rejected", 0), FALSE, None,
                   << >>, store, srcOut, base, alt, None)

\* fetch_lyrics_from_alkitab, the fetch of the canonical URL and what follows it
FetchBase(o) ==
    /\ pc = "base"
    /\ Attempt(Stage1(UrlBase, o), Some(o), None, UrlBase)
    /\ UNCHANGED << variant, hymnal, links, clock, attempted >>
    /\ UNCHANGED << workerVars, callVars, fetchVars, crawlVars, docVars >>

\* fetch_lyrics_from_alkitab, the fetch of the 'A' URL and what follows it
FetchAlt(o) ==
    /\ pc = "alt"
    /\ Attempt(Stage2(UrlA, o, warns), baseOut, Some(o), UrlA)
    /\ UNCHANGED << variant, hymnal, links, clock, attempted >>
    /\ UNCHANGED << workerVars, callVars, fetchVars, crawlVars, docVars >>

\* the variant's validation
key_warns(m, lirik) ==
    IF variant = "batch" THEN enforce_required_fields(m, lirik) ELSE validate(m, lirik)

\* scrape_one lines 403-405 and process_file lines 427-440 (main lines
\* 329-345): validation, the row, the upsert and the count.  fault: the
\* database fails on the statement or the commit (sqlite3.OperationalError).
Save(fault) ==
    /\ pc = "save"
    /\ LET m == Val(meta)
           r == Val(res)
           msgs == key_warns(m, r.lirik)
           row == to_db_row(m, links[i], r.lirik, r.url, msgs \o r.warns, clock + 1)
           u == IF fault
                THEN [raised |-> TRUE, store |-> store,
                      exc |-> Exc("OperationalError", "disk I/O error", 0)]
                ELSE upsert_hymn(store, row)
       IN  IF u.raised
           THEN EndLink("upsert", u.exc, fault, Some(row), msgs, store,
                        srcOut, baseOut, altOut, res)
           ELSE EndLink("saved", NoExc, fault, Some(row), msgs, u.store,
                        srcOut, baseOut, altOut, res)
    /\ clock' = clock + 1
    /\ UNCHANGED << variant, hymnal, links, attempted >>
    /\ UNCHANGED << workerVars, callVars, fetchVars, crawlVars, docVars >>

\* the runs over several links
Next ==
    \/ Start
    \/ \E o \in SourceOutcomes : SourceFails(o)
    \/ \E o \in SourceOutcomes : SourceOk(o)
    \/ \E o \in FewLyricsOutcomes : FetchBase(o)
    \/ \E o \in FewLyricsOutcomes : FetchAlt(o)
    \/ \E fault \in BOOLEAN : Save(fault)

Spec == Init /\ [][Next]_vars

\* the runs over one link, with every outcome of the two lyrics fetches
InitOneLink == Init /\ Len(links) = 1

NextOneLink ==
    \/ Start
    \/ \E o \in SourceOutcomes : SourceFails(o)
    \/ \E o \in SourceOutcomes : SourceOk(o)
    \/ \E o \in LyricsOutcomes : FetchBase(o)
    \/ \E o \in LyricsOutcomes : FetchAlt(o)
    \/ \E fault \in BOOLEAN : Save(fault)

SpecOneLink == InitOneLink /\ [][NextOneLink]_vars

\* ------------------------------------------- several writers, one database
\* Each worker is a process running a scraper with its own connection
\* (init_db) on the same database file; kjpkjnkb.py and get_nkb_24.py both
\* default to hymns.sqlite3.  upsert_hymn is conn.execute(sql, row) followed
\* by conn.commit(): the statement opens the connection's transaction and
\* takes the database's write lock, which SQLite gives to one connection at
\* a time; what the transaction wrote is in the table for the others at the
\* commit, which frees the lock.
Workers == 1..MaxWorkers

\* a source page's metadata for song no of KJ, in one of two versions
WorkerMeta(no, version) ==
    [buku |-> Some("KJ"), no_lagu |-> no,
     judul_text |-> Some(IF version = 1 THEN Chars("v1") ELSE Chars("v2")),
     info |-> IF version = 1 THEN Some(Chars("syair")) ELSE None,
     tune |-> IF version = 1 THEN Some(Chars("do")) ELSE None,
     beat |-> IF version = 1 THEN None ELSE Some(Chars("ketuk")),
     raw_title |-> << >>]

\* the row scrape_one builds of it: version 1 with lyrics and no warnings,
\* version 2 without lyrics and with warnings
WorkerRow(no, version) ==
    IF version = 1
    THEN to_db_row(WorkerMeta(no, 1), "u1", parse_alkitab_page(PageTwoVerses),
                   Some(build_alkitab_url("KJ", Val(no))), << >>, 1)
    ELSE to_db_row(WorkerMeta(no, 2), "u2", None, None, << "No lirik found" >>, 2)

\* the rows the workers write: two songs in two versions each, and a row
\* without a number
WorkerRows ==
    { WorkerRow(Some(no), version) : no \in {1, 2}, version \in {1, 2} }
    \cup { WorkerRow(None, 2) }

InitWorkers ==
    /\ variant = "batch" /\ hymnal = "KJ" /\ links = << >> /\ pc = "done"
    /\ i = 0 /\ ok = 0 /\ err = 0 /\ clock = 0
    /\ srcOut = None /\ meta = None /\ warns = << >> /\ fetched = << >>
    /\ baseOut = None /\ altOut = None /\ res = None /\ attempted = << >>
    /\ last = NoLast
    /\ store = {}
    /\ wpc = [w \in Workers |-> "idle"]
    /\ wrow = [w \in Workers |-> None]
    /\ wn = [w \in Workers |-> 0]
    /\ lock = None
    /\ pending = [w \in Workers |-> None]
    /\ committed = << >>
    /\ NoCall
    /\ NoFetch
    /\ NoCrawl
    /\ NoDoc

\* the upsert_hymn calls made so far, by all workers
RECURSIVE Calls(_)
Calls(k) == IF k = 0 THEN 0 ELSE wn[k] + Calls(k - 1)

\* mutant of WriteLockFree: the statement does not wait for the write lock
WriteLockFree_NoLock(w) == TRUE

\* conn.execute can take the write lock: no other connection holds it
WriteLockFree(w) == lock = None

\* upsert_hymn line 131, conn.execute(sql, row), in worker w: the statement
\* runs in w's transaction, or raises sqlite3.IntegrityError and writes nothing
Execute(w, row) ==
    /\ wpc[w] \in {"idle", "failed"}
    /\ Calls(MaxWorkers) < MaxUpserts
    /\ WriteLockFree(w)
    /\ LET u == upsert_hymn(store, row)
       IN  IF u.raised
           THEN /\ wpc' = [wpc EXCEPT ![w] = "failed"]
                /\ UNCHANGED << lock, pending >>
           ELSE /\ wpc' = [wpc EXCEPT ![w] = "executed"]
                /\ lock' = Some(w)
                /\ pending' = [pending EXCEPT ![w] = Some(u.store)]
    /\ wrow' = [wrow EXCEPT ![w] = Some(row)]
    /\ wn' = [wn EXCEPT ![w] = @ + 1]
    /\ UNCHANGED << runVars, store, committed, callVars, fetchVars, crawlVars, docVars >>

\* upsert_hymn line 131 in worker w while another connection holds the write
\* lock for longer than the connection's timeout: sqlite3.OperationalError
\* (database is locked), nothing written
Busy(w, row) ==
    /\ wpc[w] \in {"idle", "failed"}
    /\ Calls(MaxWorkers) < MaxUpserts
    /\ ~WriteLockFree(w)
    /\ wpc' = [wpc EXCEPT ![w] = "failed"]
    /\ wrow' = [wrow EXCEPT ![w] = Some(row)]
    /\ wn' = [wn EXCEPT ![w] = @ + 1]
    /\ UNCHANGED << runVars, store, lock, pending, committed, callVars, fetchVars, crawlVars, docVars >>

\* upsert_hymn line 132, conn.commit(), in worker w
Commit(w) ==
    /\ wpc[w] = "executed"
    /\ store' = Val(pending[w])
    /\ committed' = Append(committed, [by |-> w, row |-> Val(wrow[w])])
    /\ lock' = IF lock = Some(w) THEN None ELSE lock
    /\ pending' = [pending EXCEPT ![w] = None]
    /\ wpc' = [wpc EXCEPT ![w] = "idle"]
    /\ UNCHANGED << runVars, wrow, wn, callVars, fetchVars, crawlVars, docVars >>

NextWorkers ==
    \/ \E w \in Workers, row \in WorkerRows : Execute(w, row)
    \/ \E w \in Workers, row \in WorkerRows : Busy(w, row)
    \/ \E w \in Workers : Commit(w)

SpecWorkers == InitWorkers /\ [][NextWorkers]_vars

\* ------------------------------------------------- one call of a function
\* the scrapers are not running
NoRun ==
    /\ variant = "batch" /\ hymnal = "KJ" /\ links = << >> /\ pc = "done"
    /\ i = 0 /\ ok = 0 /\ err = 0 /\ clock = 0 /\ store = {}
    /\ srcOut = None /\ meta = None /\ warns = << >> /\ fetched = << >>
    /\ baseOut = None /\ altOut = None /\ res = None /\ attempted = << >>
    /\ last = NoLast

\* n times the character c
Run(c, n) == [k \in 1..n |-> c]

\* The headings handed to split_title.  A coded heading is written
\* <spelling><gap><zeros><digits><sep><rest>: code is the songbook the
\* spelling names, value the number the digits stand for, trimmed the rest
\* without the whitespace around it.
Spellings ==
    { [code |-> "KJ", text |-> <<"K", "J">>], [code |-> "KJ", text |-> <<"k", "j">>],
      [code |-> "PKJ", text |-> <<"P", "k", "j">>],
      [code |-> "NKB", text |-> <<"N", "K", "B">>], [code |-> "NKB", text |-> <<"n", "k", "B">>] }

Numbers ==
    { [value |-> 2, text |-> <<"2">>], [value |-> 24, text |-> <<"2", "4">>],
      [value |-> 100, text |-> <<"1", "0", "0">>] }

Separators ==
    { [name |-> "hyphen", text |-> <<" ", "-", " ">>],
      [name |-> "endash", text |-> <<" ", "ENDASH", " ">>],
      [name |-> "emdash", text |-> <<" ", "EMDASH", " ">>],
      [name |-> "comma", text |-> <<",", " ">>] }

Rests ==
    { [trimmed |-> <<"X">>, text |-> <<"X">>],
      [trimmed |-> <<"T", "u", "h", "a", "n", " ", "K", "a", "m", "i">>,
       text |-> <<"T", "u", "h", "a", "n", " ", "K", "a", "m", "i", " ">>] }

CodedHeadings ==
    { [form |-> "coded", code |-> sp.code, value |-> nu.value, zeros |-> z,
       sep |-> se.name, trimmed |-> re.trimmed,
       text |-> sp.text \o Run(" ", g) \o Run("0", z) \o nu.text \o se.text \o re.text] :
        sp \in Spellings, g \in 1..MaxGap, z \in 0..MaxZeros, nu \in Numbers,
        se \in Separators, re \in Rests }

\* headings in which no songbook code is followed by digits; whole is the
\* heading normalized
FreeText(text, whole) ==
    [form |-> "free", code |-> "", value |-> 0, zeros |-> 0, sep |-> "",
     trimmed |-> whole, text |-> text]

FreeHeadings ==
    { FreeText(<<"R", "a", "n", "d", "o", "m", " ", "U", "n", "t", "i", "t", "l", "e", "d",
                 " ", "S", "o", "n", "g">>,
               <<"R", "a", "n", "d", "o", "m", " ", "U", "n", "t", "i", "t", "l", "e", "d",
                 " ", "S", "o", "n", "g">>),
      FreeText(<<" ", "L", "a", "g", "u", "NBSP", "B", "a", "r", "u", "\n">>,
               <<"L", "a", "g", "u", " ", "B", "a", "r", "u">>),
      FreeText(<<"K", "J">>, <<"K", "J">>),
      FreeText(<<"2", "4", " ", "-", " ", "X">>, <<"2", "4", " ", "-", " ", "X">>),
      FreeText(<<" ", "\t">>, << >>),
      FreeText(<< >>, << >>) }

\* what may stand before the code: nothing, or a word
Fronts == { << >>, <<"L", "a", "g", "u", " ">> }

\* what may follow the digits, with the title get_nkb_24.py's pattern for
\* the general case leaves of it (none: the empty text); the last one is a
\* well-formed separator, for headings that do not start with the code
Tails ==
    { [trimmed |-> << >>, text |-> << >>, strict |-> FALSE],
      [trimmed |-> <<"T", "u", "h", "a", "n">>, text |-> <<" ", "T", "u", "h", "a", "n">>,
       strict |-> FALSE],
      [trimmed |-> <<"T", "u", "h", "a", "n">>, text |-> <<"-", "T", "u", "h", "a", "n">>,
       strict |-> FALSE],
      [trimmed |-> <<",", " ", "X">>, text |-> <<",", ",", " ", "X">>, strict |-> FALSE],
      [trimmed |-> << >>, text |-> <<" ", "EMDASH">>, strict |-> FALSE],
      [trimmed |-> <<"X">>, text |-> <<" ", "-", " ", "X">>, strict |-> TRUE] }

\* headings with a code and digits that "<CODE> <digits> <separator> <rest>"
\* does not describe
LooseHeadingsWith(fr) ==
    { [form |-> "loose", code |-> sp.code, value |-> nu.value, zeros |-> z,
       sep |-> "", trimmed |-> ta.trimmed,
       text |-> fr \o sp.text \o Run(" ", g) \o Run("0", z) \o nu.text \o ta.text] :
        sp \in Spellings, g \in 1..MaxGap, z \in 0..MaxZeros, nu \in Numbers,
        ta \in { x \in Tails : ~x.strict \/ fr # << >> } }

LooseHeadings == UNION { LooseHeadingsWith(fr) : fr \in Fronts }

\* headings whose number carries a letter: "KJ 2a - X"
LetteredHeadings ==
    { [form |-> "lettered", code |-> sp.code, value |-> nu.value, zeros |-> 0,
       sep |-> "hyphen", trimmed |-> sp.text \o <<" ">> \o nu.text \o <<"a", " ", "-", " ", "X">>,
       text |-> sp.text \o <<" ">> \o nu.text \o <<"a", " ", "-", " ", "X">>] :
        sp \in Spellings, nu \in Numbers }

Headings == CodedHeadings \cup FreeHeadings \cup LooseHeadings \cup LetteredHeadings

\* the characters of the texts handed to the normalizers: a letter, the
\* whitespace the code treats differently, the line ends
TextChars == {"a", " ", "\t", "\n", "\r", "NBSP"}

\* the texts of up to MaxText characters
Texts == UNION { [1..n -> TextChars] : n \in 0..MaxText }

\* the div.bait elements of the pages handed to the parsers: two verses
\* with their numbers, and a refrain
VerseOne == Bait(FALSE, Some(<<"1", ".">>), << Chars("v1") >>)
VerseTwo == Bait(FALSE, Some(<<"2", ".">>), << Chars("v2") >>)
Refrain == Bait(TRUE, None, << Chars("r") >>)

\* the ways to fill a div.lirik with up to MaxBait of them
BaitLists == UNION { [1..n -> {VerseOne, VerseTwo, Refrain}] : n \in 0..MaxBait }

\* the k-th div.lirik after the first, numbered k + 1
NextLirik(k) == Lirik(Some(<<"N", "o", " ", ToString(k + 1)>>), << VerseOne >>)

\* the pages handed to parse_alkitab_page: without div.lagu, with an empty
\* one, and with up to MaxLirik div.lirik
PagesToParse ==
    { LyricsPage(Chars("html"), FALSE, FALSE, << >>),
      LyricsPage(Chars("html"), FALSE, TRUE, << >>) }
    \cup { LyricsPage(Chars("html"), FALSE, TRUE,
                      << Lirik(None, bs) >> \o [k \in 1..t |-> NextLirik(k)]) :
             bs \in BaitLists, t \in 0..(MaxLirik - 1) }

\* what a function is called with
Arg(kind, arg) == [kind |-> kind, arg |-> arg]

InitCall ==
    /\ NoRun
    /\ NoWorkers
    /\ NoFetch
    /\ NoCrawl
    /\ NoDoc
    /\ fop = ""
    /\ fout = None
    /\ \/ \E h \in Headings : fin = Arg("heading", h)
       \/ \E t \in Texts : fin = Arg("text", Some(t))
       \/ fin = Arg("text", None)
       \/ \E pg \in PagesToParse : fin = Arg("page", pg)
       \/ \E bs \in BaitLists : fin = Arg("lirik", Lirik(Some(<<"1">>), bs))

\* the call f(fin) returns r
Returns(f, r) ==
    /\ fop' = f
    /\ fout' = Some(r)
    /\ UNCHANGED << fin, runVars, store, workerVars, fetchVars, crawlVars, docVars >>

\* split_title(raw_title) of kjpkjnkb.py
CallSplitTitleBatch ==
    /\ fop = ""
    /\ fin.kind = "heading"
    /\ Returns("kjpkjnkb.split_title", split_title_batch(fin.arg.text))

\* split_title(raw_title) of get_nkb_24.py
CallSplitTitleSingle ==
    /\ fop = ""
    /\ fin.kind = "heading"
    /\ Returns("get_nkb_24.split_title", split_title_single(fin.arg.text))

\* normalize_preserve_newlines(s) of kjpkjnkb.py, normalize(s) of
\* get_nkb_24.py
CallNormalize ==
    /\ fop = ""
    /\ fin.kind = "text"
    /\ Returns("normalize_preserve_newlines", normalize_preserve_newlines(fin.arg))

\* normalize_text(s) of kppk.py
CallNormalizeText ==
    /\ fop = ""
    /\ fin.kind = "text"
    /\ Returns("normalize_text", normalize_text(fin.arg))

\* the normalizer that returned is called on what it returned
CallAgain ==
    /\ fop \in {"normalize_preserve_newlines", "normalize_text"}
    /\ fin' = Arg("text", Val(fout))
    /\ fop' = fop \o ".again"
    /\ fout' = Some(IF fop = "normalize_text" THEN normalize_text(Val(fout))
                    ELSE normalize_preserve_newlines(Val(fout)))
    /\ UNCHANGED << runVars, store, workerVars, fetchVars, crawlVars, docVars >>

\* parse_alkitab_page(html) of kjpkjnkb.py and get_nkb_24.py
CallParsePage ==
    /\ fop = ""
    /\ fin.kind = "page"
    /\ Returns("parse_alkitab_page", parse_alkitab_page(fin.arg))

\* parse_lirik_blocks(lirik_div) of kppk.py
CallParseLirikBlocks ==
    /\ fop = ""
    /\ fin.kind = "lirik"
    /\ Returns("parse_lirik_blocks", parse_lirik_blocks(fin.arg))

NextCall ==
    \/ CallParsePage
    \/ CallParseLirikBlocks
    \/ CallSplitTitleBatch
    \/ CallSplitTitleSingle
    \/ CallNormalize
    \/ CallNormalizeText
    \/ CallAgain

SpecCall == InitCall /\ [][NextCall]_vars

\* --------------------------------------------------------- one fetch of a URL
\* retries of kppk.py's fetch, and total of the Retry of build_session
RETRY == 3
RETRY_TOTAL == 3

\* status_forcelist of the Retry of build_session
STATUS_FORCELIST == {408, 425, 429, 500, 502, 503, 504}

\* what a request meets: a response with its status, or no response
\* (connection refused, timeout)
Response(status) == [failed |-> FALSE, status |-> status]
NoResponse == [failed |-> TRUE, status |-> 0]
Answers == { Response(st) : st \in {200, 403, 404} \cup STATUS_FORCELIST } \cup { NoResponse }

\* r.raise_for_status() raises: a 4xx or 5xx status
RaisesForStatus(a) == ~a.failed /\ a.status >= 400

\* urllib3's Retry asks for the request again: no response, or a status of
\* status_forcelist (GET is an allowed method)
IsRetry(a) == a.failed \/ a.status \in STATUS_FORCELIST

InitFetch ==
    /\ NoRun
    /\ NoWorkers
    /\ NoCall
    /\ NoCrawl
    /\ NoDoc
    /\ fetcher \in {"fetch", "fetch_html"}
    /\ sent = << >>
    /\ fpc = "trying"

\* one turn of the loop of kppk.py's fetch: the request, and on any
\* exception (no response, or raise_for_status) the next turn while
\* attempt < retries; None after the last
FetchAttempt(a) ==
    /\ fetcher = "fetch"
    /\ fpc = "trying"
    /\ sent' = Append(sent, a)
    /\ fpc' = IF ~a.failed /\ ~RaisesForStatus(a) THEN "text"
              ELSE IF Len(sent) + 1 < RETRY THEN "trying"
              ELSE "none"
    /\ UNCHANGED << fetcher, runVars, store, workerVars, callVars, crawlVars, docVars >>

\* one request of session.get in fetch_html: the adapter sends it again
\* while IsRetry and retries remain; out of retries, no response raises and
\* a response is handed over (raise_on_status=False), after which
\* raise_for_status decides
SessionAttempt(a) ==
    /\ fetcher = "fetch_html"
    /\ fpc = "trying"
    /\ sent' = Append(sent, a)
    /\ fpc' = IF IsRetry(a) /\ Len(sent) < RETRY_TOTAL THEN "trying"
              ELSE IF a.failed \/ RaisesForStatus(a) THEN "raised"
              ELSE "text"
    /\ UNCHANGED << fetcher, runVars, store, workerVars, callVars, crawlVars, docVars >>

NextFetch ==
    \/ \E a \in Answers : FetchAttempt(a)
    \/ \E a \in Answers : SessionAttempt(a)

SpecFetch == InitFetch /\ [][NextFetch]_vars

\* ------------------------------------------------------- the crawl, kppk.py
\* (KPRI|KPPK) with re.IGNORECASE at index i of t
KCodeAt(t, p) ==
    IF p + 3 <= Len(t) /\ Upper(SubSeq(t, p, p + 3)) \in { <<"K", "P", "R", "I">>, <<"K", "P", "P", "K">> }
    THEN Some(IF Upper(SubSeq(t, p, p + 3)) = <<"K", "P", "R", "I">> THEN "KPRI" ELSE "KPPK")
    ELSE None

\* split_judul of kppk.py:
\*   ^\s*(KPRI|KPPK)\s+(\d+)\s+(.*)\s*$   and   ^\s*(KPRI|KPPK)\s+(\d+)\s*$
\* (.*) stops at a line feed, after which only whitespace may follow
split_judul(full_title) ==
    IF IsNone(full_title) \/ Val(full_title) = << >> THEN Title(None, None, None)
    ELSE
      LET t == Val(full_title)
          i0 == SkipSet(t, 1, WS)
          code == KCodeAt(t, i0)
          i1 == i0 + 4
          i2 == SkipSet(t, i1, WS)
          i3 == SkipSet(t, i2, DIGITS)
          i4 == SkipSet(t, i3, WS)
          nl == IndexOf(t, i4, "\n")
      IN  IF code # None /\ i2 > i1 /\ i3 > i2 /\ i4 > i3 /\ SkipSet(t, nl, WS) > Len(t)
          THEN Title(code, Some(IntOf(SubSeq(t, i2, i3 - 1))), Some(Strip(SubSeq(t, i4, nl - 1))))
          ELSE IF code # None /\ i2 > i1 /\ i3 > i2 /\ i4 > Len(t)
          THEN Title(code, Some(IntOf(SubSeq(t, i2, i3 - 1))), Some(<< >>))
          ELSE Title(None, None, Some(Strip(t)))

\* "\n\n".join(texts)
RECURSIVE JoinParagraphs(_)
JoinParagraphs(ts) ==
    IF ts = << >> THEN << >>
    ELSE IF Len(ts) = 1 THEN ts[1]
    ELSE ts[1] \o <<"\n", "\n">> \o JoinParagraphs(Tail(ts))

\* the texts of the parts of the blocks, those without text left out
RECURSIVE FlatBaits(_)
FlatBaits(lirik_list) ==
    IF lirik_list = << >> THEN << >>
    ELSE LET parts == lirik_list[1].parts
             texts == [k \in 1..Len(parts) |->
                          IF IsNone(parts[k].text) THEN << >> ELSE Val(parts[k].text)]
         IN  NonEmpty(texts) \o FlatBaits(Tail(lirik_list))

\* parse_page of kppk.py on a page: lagu (a div.lagu exists), judul (the
\* text of its div.judul, None without one), liriks (its div.lirik
\* elements); the page has no other div of those parse_page reads
parse_page(page) ==
    IF ~page.lagu THEN None
    ELSE LET full_title == normalize_text(page.judul)
             split == split_judul(full_title)
             lirik_list == [k \in 1..Len(page.liriks) |-> parse_lirik_blocks(page.liriks[k])]
             flat_baits == FlatBaits(lirik_list)
         IN  Some([judul |-> full_title,
                   buku |-> split.buku,
                   no_lagu |-> split.no_lagu,
                   judul_text |-> split.judul_text,
                   judul_asli |-> None,
                   pengarang_lirik |-> None,
                   pengarang_musik |-> None,
                   nadaDasar |-> None,
                   lirik_json |-> Some(<< "json", lirik_list >>),
                   bait |-> IF flat_baits # << >> THEN Some(JoinParagraphs(flat_baits))
                            ELSE None])

\* the parameters of the statement of upsert_record,
\* {"buku": buku, "page_no": page_no, **rec}: a key of rec replaces the
\* entry of the same name written before it
Params(buku, page_no, rec) ==
    [k \in {"buku", "page_no"} \cup DOMAIN rec |->
        IF k \in DOMAIN rec THEN rec[k]
        ELSE IF k = "buku" THEN Some(buku) ELSE Some(page_no)]

\* the columns of table lagu
LAGU_COLUMNS == {"buku", "page_no", "judul", "judul_asli", "pengarang_lirik",
                 "pengarang_musik", "nadaDasar", "bait", "no_lagu", "judul_text",
                 "lirik_json"}

\* PRIMARY KEY (buku, page_no)
SamePage(r, row) == r.buku = row.buku /\ r.page_no = row.page_no

\* upsert_record of kppk.py: INSERT ... ON CONFLICT(buku, page_no) DO UPDATE
\* of every other column, and the commit; the row written and the table
upsert_record(tbl, buku, page_no, rec) ==
    LET params == Params(buku, page_no, rec)
        row == [c \in LAGU_COLUMNS |-> params[c]]
    IN  [row |-> row, table |-> { r \in tbl : ~SamePage(r, row) } \cup { row }]

\* TARGETS of kppk.py, each songbook with MaxPage pages
CRAWL_TARGETS == << <<"KPPK", MaxPage>>, <<"KPRI", MaxPage>> >>

\* a page of alkitab.app as parse_page reads it
SongPage(has_lagu, judul, liriks) == [lagu |-> has_lagu, judul |-> judul, liriks |-> liriks]

\* the div.judul texts of the pages served
JUDULS ==
    { <<"K", "P", "P", "K", " ", "1", " ", "J", "u", "d", "u", "l">>,
      <<"k", "p", "r", "i", " ", "1", " ", "K", "u", "d", "u", "s">>,
      <<"K", "P", "R", "I", " ", "2">>,
      <<"J", "u", "d", "u", "l">> }

\* what the fetch of a page gives: None (fetch failed), a page without
\* div.lagu, or a song page
CrawlOutcomes ==
    { None, Some(SongPage(FALSE, None, << >>)), Some(SongPage(TRUE, None, << >>)) }
    \cup { Some(SongPage(TRUE, Some(j), << Lirik(None, << VerseOne >>) >>)) : j \in JUDULS }

InitCrawl ==
    /\ NoRun
    /\ NoWorkers
    /\ NoCall
    /\ NoFetch
    /\ NoDoc
    /\ cpc = "run"
    /\ ct = 1
    /\ cnum = 1
    /\ lagu = {}
    /\ clast = None
    /\ written = << >>

\* the loops of scrape_targets go on to the next number, the next songbook,
\* or end
NextTarget ==
    IF cnum < CRAWL_TARGETS[ct][2] THEN cpc' = "run" /\ ct' = ct /\ cnum' = cnum + 1
    ELSE IF ct < Len(CRAWL_TARGETS) THEN cpc' = "run" /\ ct' = ct + 1 /\ cnum' = 1
    ELSE cpc' = "done" /\ ct' = ct /\ cnum' = cnum

\* one turn of the inner loop of scrape_targets, lines 238-264, in which
\* the fetch gives o; fault: the database fails on the statement
\* (sqlite3.OperationalError), which ends scrape_targets
CrawlPage(o, fault) ==
    /\ cpc = "run"
    /\ \E parsed \in { IF IsNone(o) THEN None ELSE parse_page(Val(o)) } :
       LET buku == CRAWL_TARGETS[ct][1]
           num == cnum
       IN  IF IsNone(o) \/ IsNone(parsed)
           THEN /\ ~fault
                /\ clast' = Some([outcome |-> IF IsNone(o) THEN "fetch failed" ELSE "no lagu",
                                   buku |-> buku, num |-> num])
                /\ NextTarget
                /\ UNCHANGED << lagu, written >>
           ELSE \E rec \in { LET rec0 == Val(parsed)
                                 rec1 == IF IsNone(rec0.buku)
                                         THEN [rec0 EXCEPT !.buku = Some(buku)] ELSE rec0
                             IN  IF IsNone(rec1.no_lagu) \/ rec1.no_lagu = Some(0)
                                 THEN [rec1 EXCEPT !.no_lagu = Some(num)] ELSE rec1 } :
                \E u \in { upsert_record(lagu, buku, num, rec) } :
                    IF fault
                    THEN /\ cpc' = "crashed"
                         /\ clast' = Some([outcome |-> "upsert failed", buku |-> buku, num |-> num])
                         /\ UNCHANGED << ct, cnum, lagu, written >>
                    ELSE /\ lagu' = u.table
                         /\ written' = Append(written, [buku |-> buku, num |-> num,
                                                          key |-> << u.row.buku, u.row.page_no >>])
                         /\ clast' = Some([outcome |-> "upsert", buku |-> buku, num |-> num])
                         /\ NextTarget
    /\ UNCHANGED << runVars, store, workerVars, callVars, fetchVars, docVars >>

NextCrawl ==
    \E o \in CrawlOutcomes, fault \in BOOLEAN : CrawlPage(o, fault)

SpecCrawl == InitCrawl /\ [][NextCrawl]_vars

\* ------------------------------------------------------- liturgy_tool.py
\* Cell texts, property values and date strings are sequences of characters;
\* column headers, property names and XML tags are strings.
\* An XML part of the document is held as the tree ElementTree parses it
\* from the bytes in the archive.

\* COLUMN_TO_PROPERTY, in the order of the dict
Column(column, ptype, pname) == [column |-> column, ptype |-> ptype, pname |-> pname]
COLUMN_TO_PROPERTY ==
    << Column("Tanggal", "custom", "@TANGGAL"),
       Column("Nama Minggu", "core", "subject"),
       Column("Warna Liturgi", "custom", "@WARNA LITURGI"),
       Column("Tema", "core", "title"),
       Column("Bacaan 1", "custom", "@BACAAN 1"),
       Column("Antar Bacaan", "custom", "@ANTAR BACAAN"),
       Column("Bacaan 2", "custom", "@BACAAN 2"),
       Column("Bacaan Injil", "custom", "@BACAAN INJIL"),
       Column("Pelayan Firman", "custom", "@PELAYAN FIRMAN"),
       Column("Nyanyian Prosesi", "custom", "@NYANYIAN_PROSESI"),
       Column("Nyanyian Pengakuan Dosa", "custom", "@NYANYIAN_PENGAKUAN_DOSA"),
       Column("Nyanyian Berita Anugerah", "custom", "@NYANYIAN_BERITA_ANUGERAH"),
       Column("Nyanyian Persembahan", "custom", "@NYANYIAN_PERSEMBAHAN"),
       Column("Nyanyian Peneguhan", "custom", "@NYANYIAN PENGUTUSAN") >>

\* date.toordinal(): the days from 0001-01-01, which is day 1
IsLeap(y) == y % 4 = 0 /\ (y % 100 # 0 \/ y % 400 = 0)
DaysBeforeYear(y) == (y - 1) * 365 + (y - 1) \div 4 - (y - 1) \div 100 + (y - 1) \div 400
DAYS_BEFORE_MONTH == << 0, 31, 59, 90, 120, 151, 181, 212, 243, 273, 304, 334 >>
ToOrdinal(y, mo, d) ==
    DaysBeforeYear(y) + DAYS_BEFORE_MONTH[mo] + (IF mo > 2 /\ IsLeap(y) THEN 1 ELSE 0) + d

\* date.fromisoformat(date_str) on "YYYY-MM-DD"
FromIsoFormat(date_str) ==
    [y |-> IntOf(SubSeq(date_str, 1, 4)), mo |-> IntOf(SubSeq(date_str, 6, 7)),
     d |-> IntOf(SubSeq(date_str, 9, 10))]

\* _excel_serial_from_date_str
excel_serial_from_date_str(date_str, use_1904) ==
    LET dt == FromIsoFormat(date_str)
        ord == ToOrdinal(dt.y, dt.mo, dt.d)
    IN  IF use_1904 THEN ord - ToOrdinal(1904, 1, 1)
        ELSE (ord - ToOrdinal(1899, 12, 31))
             + (IF ord >= ToOrdinal(1900, 3, 1) THEN 1 ELSE 0)

\* int(float(raw)) on a cell text: digits, with or without a fraction, give
\* the whole part; other texts raise ValueError (None)
IntOfFloat(raw) ==
    LET i1 == SkipSet(raw, 1, DIGITS)
        i2 == SkipSet(raw, i1 + 1, DIGITS)
    IN  IF i1 > 1 /\ i1 > Len(raw) THEN Some(IntOf(raw))
        ELSE IF i1 > 1 /\ raw[i1] = "." /\ i2 > Len(raw) THEN Some(IntOf(SubSeq(raw, 1, i1 - 1)))
        ELSE None

\* dict(zip(headers, values)): the cells of a row under the headers, cell by
\* cell, as far as both go
Zip(headers, values) ==
    [h \in { headers[k] : k \in 1..Min(Len(headers), Len(values)) } |->
        values[CHOOSE k \in 1..Min(Len(headers), Len(values)) :
                  /\ headers[k] = h
                  /\ \A j \in (k + 1)..Min(Len(headers), Len(values)) : headers[j] # h]]

\* the row read_schedule_row skips: no cells, no or an empty Tanggal, or one
\* that is no number
Dated(row_dict, target_serial) ==
    /\ "Tanggal" \in DOMAIN row_dict
    /\ row_dict["Tanggal"] # << >>
    /\ IntOfFloat(row_dict["Tanggal"]) = Some(target_serial)

\* read_schedule_row on the sheet of a workbook: headers (the texts of the
\* first row), rows (the cell texts of the others), use_1904; the first row
\* of the date, None for the ValueError when there is none
read_schedule_row(date_str, book) ==
    LET target_serial == excel_serial_from_date_str(date_str, book.use_1904)
        dicts == [k \in 1..Len(book.rows) |-> Zip(book.headers, book.rows[k])]
        hits == { k \in 1..Len(dicts) : book.rows[k] # << >> /\ Dated(dicts[k], target_serial) }
    IN  IF hits = {} THEN None
        ELSE Some(dicts[CHOOSE k \in hits : \A j \in hits : k <= j])

\* the entries of COLUMN_TO_PROPERTY of type ptype whose column the row has,
\* as (name, value) pairs in the order of the dict
RECURSIVE PropsOf(_, _, _)
PropsOf(row, ptype, cols) ==
    IF cols = << >> THEN << >>
    ELSE (IF cols[1].ptype = ptype /\ cols[1].column \in DOMAIN row
          THEN << << cols[1].pname, row[cols[1].column] >> >> ELSE << >>)
         \o PropsOf(row, ptype, Tail(cols))

\* get_properties_for_date, given the row
get_properties_for_date(row) ==
    [core |-> PropsOf(row, "core", COLUMN_TO_PROPERTY),
     custom |-> PropsOf(row, "custom", COLUMN_TO_PROPERTY)]

\* the attributes read: name and pid of a cp:property
NoAttrs == [name |-> "", pid |-> 0]

\* an element with a text and children
Elem(tag, attrs, text, children) ==
    [tag |-> tag, attrs |-> attrs, text |-> text, children |-> children]

\* ET.fromstring(ET.tostring(e)) on the text of an element: an empty text is
\* written as an empty element, which parses to no text
Reparsed(text) == IF text = Some(<< >>) THEN None ELSE text

\* root.find(tag): the index of the first child with the tag, 0 for None
Find(children, tag) ==
    LET ks == { k \in 1..Len(children) : children[k].tag = tag }
    IN  IF ks = {} THEN 0 ELSE CHOOSE k \in ks : \A j \in ks : k <= j

\* _update_core_properties: the children of the root after the loop, as a
\* reader of the returned bytes finds them
RECURSIVE update_core_properties(_, _)
update_core_properties(children, core_props) ==
    IF core_props = << >> THEN children
    ELSE LET key == core_props[1][1]
             value == core_props[1][2]
             tag == "dc:" \o key
             k == Find(children, tag)
             next == IF key \notin {"title", "subject"} THEN children
                     ELSE IF k = 0
                     THEN Append(children, Elem(tag, << >>, Reparsed(Some(value)), << >>))
                     ELSE [children EXCEPT ![k].text = Reparsed(Some(value))]
         IN  update_core_properties(next, Tail(core_props))

\* the first cp:property with the name, 0 for None
FindProperty(props, name) ==
    LET ks == { k \in 1..Len(props) : props[k].attrs.name = name }
    IN  IF ks = {} THEN 0 ELSE CHOOSE k \in ks : \A j \in ks : k <= j

\* pid after the first loop of _update_custom_properties
RECURSIVE MaxPid(_, _)
MaxPid(props, pid) ==
    IF props = << >> THEN pid
    ELSE MaxPid(Tail(props), IF props[1].attrs.pid > pid THEN props[1].attrs.pid ELSE pid)

\* mutant of update_custom_properties: a property is always appended
RECURSIVE update_custom_properties_Appends(_, _, _)
update_custom_properties_Appends(props, custom_props, pid) ==
    IF custom_props = << >> THEN props
    ELSE LET name == custom_props[1][1]
             value == custom_props[1][2]
             lpwstr == Elem("vt:lpwstr", NoAttrs, Reparsed(Some(value)), << >>)
         IN  update_custom_properties_Appends(
                 Append(props, Elem("cp:property", [name |-> name, pid |-> pid], None,
                                    << lpwstr >>)),
                 Tail(custom_props), pid + 1)

\* the second loop of _update_custom_properties: the cp:property elements
\* after it, as a reader of the returned bytes finds them
RECURSIVE update_custom_properties(_, _, _)
update_custom_properties(props, custom_props, pid) ==
    IF custom_props = << >> THEN props
    ELSE LET name == custom_props[1][1]
             value == custom_props[1][2]
             k == FindProperty(props, name)
             lpwstr == Elem("vt:lpwstr", NoAttrs, Reparsed(Some(value)), << >>)
         IN  IF k = 0
             THEN update_custom_properties(
                      Append(props, Elem("cp:property", [name |-> name, pid |-> pid], None,
                                         << lpwstr >>)),
                      Tail(custom_props), pid + 1)
             ELSE update_custom_properties(
                      [props EXCEPT ![k].children = << lpwstr >>],
                      Tail(custom_props), pid)

\* an archive is the list of its entries, in the order they were written
Entry(name, content) == [name |-> name, content |-> content]

\* ZipFile.getinfo: the entry written last under the name, 0 for KeyError
ZipFind(archive, name) ==
    LET ks == { k \in 1..Len(archive) : archive[k].name = name }
    IN  IF ks = {} THEN 0 ELSE CHOOSE k \in ks : \A j \in ks : j <= k

\* ZipFile.read(name)
ZipRead(archive, name) == archive[ZipFind(archive, name)].content

\* a path: directory ("" for none) and file name
Path(dir, name) == [dir |-> dir, name |-> name]

\* the file at path, in files (a set of [path, archive])
FileAt(files, path) == CHOOSE f \in files : f.path = path

\* update_word_file: the copy, and the two parts written into the archive
\* opened in mode "a", where writestr adds an entry; a part missing from the
\* template raises KeyError out of the with block, which leaves the copy
\* with what was written so far
update_word_file(files, template_path, date_str, props) ==
    LET out_path == Path(template_path.dir, <<"L", "i", "t", "u", "r", "g", "i", " ">> \o date_str
                                             \o <<".", "d", "o", "c", "x">>)
        copy == FileAt(files, template_path).archive
        others == { f \in files : f.path # out_path }
        hasCore == ZipFind(copy, "docProps/core.xml") # 0
        withCore == IF hasCore
                    THEN Append(copy, Entry("docProps/core.xml",
                                    update_core_properties(ZipRead(copy, "docProps/core.xml"),
                                                           props.core)))
                    ELSE copy
        hasCustom == hasCore /\ ZipFind(withCore, "docProps/custom.xml") # 0
        withCustom ==
            IF hasCustom
            THEN LET old == ZipRead(withCore, "docProps/custom.xml")
                 IN  Append(withCore, Entry("docProps/custom.xml",
                                update_custom_properties(old, props.custom, MaxPid(old, 1) + 1)))
            ELSE withCore
    IN  [raised |-> ~hasCustom, out_path |-> out_path,
         files |-> others \cup { [path |-> out_path, archive |-> withCustom] }]

\* the dates asked for
DATES == { <<"2", "0", "2", "4", "-", "0", "4", "-", "0", "7">>, <<"2", "0", "2", "4", "-", "0", "4", "-", "1", "4">>, <<"1", "9", "0", "0", "-", "0", "2", "-", "2", "8">> }

\* the headers of the sheet
SHEET_HEADERS == << "Tanggal", "Nama Minggu", "Tema", "Bacaan 1" >>

\* rows of the sheet: the cell texts
ROW_PALMA == << <<"4", "5", "3", "8", "9">>, <<"M", "i", "n", "g", "g", "u", " ", "P", "a", "l", "m", "a">>, <<"T", "e", "m", "a", " ", "C", "o", "n", "t", "o", "h">>, <<"Y", "e", "s", "a", "y", "a", " ", "1", ":", "1">> >>
ROW_FRACTION == << <<"4", "5", "3", "8", "9", ".", "5">>, <<"P", "a", "s", "k", "a", "h">>, <<"T", "e", "m", "a", " ", "L", "a", "i", "n">>, <<"M", "a", "t", "i", "u", "s", " ", "2", ":", "2">> >>
ROW_NOTHEME == << <<"4", "5", "3", "8", "9">>, <<"M", "i", "n", "g", "g", "u", " ", "P", "a", "l", "m", "a">>, << >>, <<"Y", "e", "s", "a", "y", "a", " ", "1", ":", "1">> >>
ROW_SHORT == << <<"4", "5", "3", "8", "9">>, <<"M", "i", "n", "g", "g", "u", " ", "P", "a", "l", "m", "a">> >>
ROW_1904 == << <<"4", "3", "9", "2", "7">>, <<"P", "a", "s", "k", "a", "h">>, <<"T", "e", "m", "a", " ", "L", "a", "i", "n">>, <<"M", "a", "t", "i", "u", "s", " ", "2", ":", "2">> >>
ROW_OLD == << <<"5", "9">>, <<"P", "a", "s", "k", "a", "h">>, <<"T", "e", "m", "a", " ", "L", "a", "i", "n">>, <<"M", "a", "t", "i", "u", "s", " ", "2", ":", "2">> >>
ROW_TEXT == << <<"n", "/", "a">>, <<"P", "a", "s", "k", "a", "h">>, <<"T", "e", "m", "a", " ", "L", "a", "i", "n">>, <<"M", "a", "t", "i", "u", "s", " ", "2", ":", "2">> >>

Book(use_1904, rows) == [headers |-> SHEET_HEADERS, use_1904 |-> use_1904, rows |-> rows]

\* the workbooks
BOOKS ==
    { Book(FALSE, << ROW_TEXT, ROW_OLD, ROW_PALMA, ROW_FRACTION >>),
      Book(FALSE, << << >>, ROW_FRACTION, ROW_PALMA >>),
      Book(FALSE, << ROW_NOTHEME >>),
      Book(FALSE, << ROW_SHORT, ROW_PALMA >>),
      Book(TRUE, << ROW_PALMA, ROW_1904 >>),
      Book(FALSE, << >>) }

\* the parts of the templates
CORE_EMPTY == << Elem("dc:creator", NoAttrs, Some(<<"A", "d", "m", "i", "n">>), << >>) >>
CORE_TITLED == << Elem("dc:title", NoAttrs, Some(<<"L", "a", "m", "a">>), << >>),
                  Elem("dc:creator", NoAttrs, Some(<<"A", "d", "m", "i", "n">>), << >>) >>
CUSTOM_EMPTY == << >>
CUSTOM_READING ==
    << Elem("cp:property", [name |-> "@BACAAN 1", pid |-> 2], None,
            << Elem("vt:lpwstr", NoAttrs, Some(<<"L", "a", "m", "a">>), << >>) >>),
       Elem("cp:property", [name |-> "@EDISI", pid |-> 5], None,
            << Elem("vt:i4", NoAttrs, Some(<<"3">>), << >>) >>) >>

\* the templates: archives with both parts, and one without custom.xml
TEMPLATES ==
    { << Entry("docProps/core.xml", c), Entry("docProps/custom.xml", u),
         Entry("word/document.xml", << >>) >> :
        c \in { CORE_EMPTY, CORE_TITLED }, u \in { CUSTOM_EMPTY, CUSTOM_READING } }
    \cup { << Entry("docProps/core.xml", CORE_TITLED), Entry("word/document.xml", << >>) >> }

\* where the template is
TEMPLATE_PATHS == { Path("", <<"t", "e", "m", "p", "l", "a", "t", "e", ".", "d", "o", "c", "x">>), Path("docs", <<"t", "e", "m", "p", "l", "a", "t", "e", ".", "d", "o", "c", "x">>) }

InitDoc ==
    /\ NoRun
    /\ NoWorkers
    /\ NoCall
    /\ NoFetch
    /\ NoCrawl
    /\ dpc = "start"
    /\ ddate \in DATES
    /\ dsched \in { Some(b) : b \in BOOKS }
    /\ dtemplate \in { Some(tp) : tp \in TEMPLATE_PATHS }
    /\ \E t \in TEMPLATES, stale \in BOOLEAN :
          dfiles = { [path |-> Val(dtemplate), archive |-> t] }
                   \cup (IF stale
                         THEN { [path |-> Path(Val(dtemplate).dir,
                                               <<"L", "i", "t", "u", "r", "g", "i", " ">> \o ddate
                                               \o <<".", "d", "o", "c", "x">>),
                                 archive |-> << Entry("word/document.xml", << >>) >>] }
                         ELSE {})
    /\ dprops = None
    /\ dout = None

\* main, line 226: get_properties_for_date(date_str); the ValueError of
\* read_schedule_row ends the run
GetProperties ==
    /\ dpc = "start"
    /\ LET row == read_schedule_row(ddate, Val(dsched))
       IN  IF IsNone(row)
           THEN dpc' = "failed" /\ dprops' = None
           ELSE dpc' = "props" /\ dprops' = Some(get_properties_for_date(Val(row)))
    /\ UNCHANGED << ddate, dsched, dtemplate, dfiles, dout >>
    /\ UNCHANGED << runVars, store, workerVars, callVars, fetchVars, crawlVars >>

\* main, line 227: update_word_file(template_path, date_str, props)
UpdateWordFile ==
    /\ dpc = "props"
    /\ LET u == update_word_file(dfiles, Val(dtemplate), ddate, Val(dprops))
       IN  /\ dfiles' = u.files
           /\ dpc' = IF u.raised THEN "failed" ELSE "done"
           /\ dout' = IF u.raised THEN None ELSE Some(u.out_path)
    /\ UNCHANGED << ddate, dsched, dtemplate, dprops >>
    /\ UNCHANGED << runVars, store, workerVars, callVars, fetchVars, crawlVars >>

NextDoc ==
    \/ GetProperties
    \/ UpdateWordFile

SpecDoc == InitDoc /\ [][NextDoc]_vars

\* ------------------------------------------------ either program at work
\* a run of kjpkjnkb.py or get_nkb_24.py on its database, or the crawl of
\* kppk.py on its own
InitStores == Init \/ InitCrawl

NextStores == Next \/ NextCrawl

SpecStores == InitStores /\ [][NextStores]_vars

\* ------------------------------------------------------------------ claims
\* the columns ON CONFLICT ... DO UPDATE SET names
NON_KEY == {"judul_text", "info", "tune", "beat", "lirik_json", "source_url",
            "lyrics_source_url", "fetched_at", "warnings"}

\* the rows stored under the key of row
RowsOf(row) == { r \in store : SameKey(r, row) }

\* C1: after upsert_hymn(r1) and then upsert_hymn(r2) on the same (buku,
\* no_lagu), the row stored under that key has r2's value in every non-key
\* column; nothing of r1 is left, also when r2 has no lyrics and r1 had some.
C1_SecondUpsertWins ==
    last.phase = "saved" =>
        /\ RowsOf(Val(last.row)) # {}
        /\ \A r \in RowsOf(Val(last.row)) : \A c \in NON_KEY : r[c] = Val(last.row)[c]

\* C1 witness: a row with lyrics was overwritten by a row without, and the
\* two rows differ in every non-key column
C1_Witness ==
    /\ last.phase = "saved"
    /\ last.prev # None
    /\ \A c \in NON_KEY : Val(last.prev)[c] # Val(last.row)[c]
    /\ Val(last.row).lirik_json = Some(json_dumps(None))
    /\ Val(last.prev).lirik_json # Some(json_dumps(None))

\* C2: whatever upserts ran, successful or failing, table hymns holds at most
\* one row for each (buku, no_lagu).
C2_OneRowPerKey == \A r1, r2 \in store : SameKey(r1, r2) => r1 = r2

\* C2 witness: two upserts succeeded and the table holds one row
C2_Witness == ok = 2 /\ Cardinality(store) = 1 /\ last.prev # None

\* C3, as claimed: in the batch scraper a link whose source page was fetched
\* and has an article element is stored and counted ok also when validation
\* found something missing (the database itself working).
C3_ValidationNeverStopsPersistence ==
    ( /\ variant = "batch"
      /\ last.phase \in {"saved", "upsert"}
      /\ ~last.fault
      /\ last.msgs # << >> )
    => ( /\ last.counted = "ok"
         /\ last.phase = "saved"
         /\ \E r \in store : r.source_url = Val(last.row).source_url
                              /\ r.warnings = Val(last.row).warnings
                              /\ r.fetched_at = Val(last.row).fetched_at )

\* the links process_file has finished with
Handled == ok + err

\* C9: in process_file a failure on one link (HTTP error on the source page,
\* no article element) is caught and counted as one failure, and the loop
\* goes on: the links are attempted once each in list order, and on return
\* ok + err is the number of links.
C9_FailuresIsolated ==
    variant = "batch" =>
        /\ pc # "crashed"
        /\ Len(attempted) <= Len(links)
        /\ attempted = SubSeq(links, 1, Len(attempted))
        /\ pc = "source" => Len(attempted) = i - 1 /\ Handled = i - 1
        /\ pc \in {"base", "alt", "save"} => Len(attempted) = i /\ Handled = i - 1
        /\ pc = "done" => attempted = links /\ Handled = Len(links)
        /\ last.phase \in {"source", "article"} => last.counted = "err"

\* C9 witness: the first link failed on its source page and was counted, and
\* the second link's source page has been read
C9_Witness ==
    /\ variant = "batch"
    /\ last.phase \in {"source", "article"}
    /\ i = 2
    /\ pc = "base"
    /\ err = 1

\* C10, as claimed: a sqlite error out of upsert_hymn ends the batch run, no
\* later link is processed, and nothing else ends the run.
C10_StorageFaultAborts ==
    variant = "batch" =>
        /\ last.phase = "upsert" => pc = "crashed" /\ last.counted = "abort"
        /\ pc = "crashed" => last.phase = "upsert"


\* fetch_lyrics_from_alkitab has returned to scrape_one
Resolved == pc = "save" /\ baseOut # None

\* a fetch that gave a body without the marker
NoMarker(o) == o.kind = "ok" /\ ~Contains(Lower(o.page.body), MARKER)

\* a fetch that gave a body with the marker, in whatever case
Marked(o) == o.kind = "ok" /\ Contains(Lower(o.page.body), MARKER)

\* a fetch that gave a body without the marker which BeautifulSoup parses
Parsed(o) == NoMarker(o) /\ ~o.page.raises

\* the notes of the variant at work
NoSuchBaseNote == IF variant = "batch" THEN B_NoSuchBase ELSE S_NoSuchBase
NoSuchANote == IF variant = "batch" THEN B_NoSuchA ELSE S_NoSuchA
UsedNote == IF variant = "batch" THEN B_UsedA ELSE S_UsedA

\* the indices at which note occurs in ws
Places(ws, note) == { k \in 1..Len(ws) : ws[k] = note }

\* C4: fetch_lyrics_from_alkitab always returns a (lyrics or None, url,
\* warnings) tuple and never raises, whatever the canonical fetch and the
\* 'A' fetch meet: a body, the marker, HTTP 404, another HTTP error, a
\* connection failure, an exception while parsing.
C4_ResolverAlwaysReturns ==
    /\ last.phase # "resolver"
    /\ pc = "base" => \A o \in LyricsOutcomes : Stage1(UrlBase, o).end \in {"return", "next"}
    /\ pc = "alt" => \A o \in LyricsOutcomes : Stage2(UrlA, o, warns).end = "return"
    /\ Resolved =>
          /\ res # None
          /\ Val(res).url \in { Some(UrlBase), Some(UrlA) }
          /\ Val(res).warns \in Seq({ Val(res).warns[k] : k \in 1..Len(Val(res).warns) })
          /\ Val(res).lirik = None \/ Len(Val(res).lirik) = 1

\* C4 witness: both fetches ended in an exception and the function returned
C4_Witness ==
    /\ Resolved
    /\ baseOut = Some(ConnOut)
    /\ altOut = Some(OkOut(PageRejected))
    /\ Val(res).lirik = None

\* the case of C5: the canonical body carries the marker, the 'A' body
\* parses to blocks with parts
C5_Case ==
    /\ Resolved
    /\ Marked(Val(baseOut))
    /\ altOut # None
    /\ Parsed(Val(altOut))
    /\ ~Falsy(parse_alkitab_page(Val(altOut).page))
    /\ ~NoParts(Val(parse_alkitab_page(Val(altOut).page)))

\* C5: when the canonical body carries the 'no such song' marker the 'A' URL
\* is fetched, and when the 'A' page parses to blocks with parts the function
\* returns those blocks, the 'A' URL, and warnings holding the 'no such song'
\* note and then the 'used fallback' note (here: exactly these two, in this
\* order).
C5_FallbackAfterMarker ==
    /\ (Resolved /\ Marked(Val(baseOut))) => altOut # None
    /\ C5_Case =>
          /\ Val(res).lirik = parse_alkitab_page(Val(altOut).page)
          /\ Val(res).url = Some(UrlA)
          /\ Val(res).warns = << NoSuchBaseNote, UsedNote >>
          /\ \E a \in Places(Val(res).warns, NoSuchBaseNote) :
                \E b \in Places(Val(res).warns, UsedNote) : a < b

\* C5 witness: the case, with a page of a verse, a refrain and a verse
C5_Witness == C5_Case /\ altOut = Some(OkOut(PageWithReff))

\* what C6 says of a return from the canonical URL
C6_Returned ==
    /\ Val(res).lirik = parse_alkitab_page(Val(baseOut).page)
    /\ Val(res).url = Some(UrlBase)
    /\ altOut = None
    /\ fetched = << UrlBase >>
    /\ ( \/ Falsy(Val(res).lirik)
         \/ NoParts(Val(Val(res).lirik)) ) => Val(res).warns # << >>

C7_MarkerOnBothPages ==
    (Resolved /\ altOut # None /\ Marked(Val(altOut))) =>
        /\ Val(res).lirik = None
        /\ Val(res).url = Some(UrlA)
        /\ Val(res).warns = warns \o << NoSuchANote >>
        /\ Places(Val(res).warns, UsedNote) = {}

\* C7 witness: the marker on the canonical page and on the 'A' page
C7_Witness ==
    /\ Resolved
    /\ baseOut = Some(OkOut(PageNoSuchSong))
    /\ altOut = Some(OkOut(PageNoSuchSong))
    /\ Len(Val(res).warns) = 2

\* what C8 says of a return from the 'A' URL
C8_Returned ==
    /\ Val(res).lirik = parse_alkitab_page(Val(altOut).page)
    /\ Val(res).url = Some(UrlA)
    /\ Val(res).warns # << >>
    /\ Places(Val(res).warns, UsedNote) = { Len(Val(res).warns) }

CommitsOf(r) == { k \in 1..Len(committed) : SameKey(committed[k].row, r) }

\* the commit that wrote the key of row r last
LastCommit(r) == CHOOSE k \in CommitsOf(r) : \A j \in CommitsOf(r) : j <= k

C12_Case ==
    /\ variant = "batch"
    /\ last.phase = "saved"
    /\ Val(last.src).page.h1 =
          Some(<<"K", "J", " ", "0", "0", "2", " ", "-", " ", "M", "a", "r", "i", " ",
                 "K", "i", "t", "a">>)
    /\ last.base = Some(OkOut(PageTwoVerses))

\* what C12 says is persisted
C12_Persisted ==
    \E r \in store :
        /\ r.buku = Some("KJ")
        /\ r.no_lagu = Some(2)
        /\ r.judul_text = Some(<<"M", "a", "r", "i", " ", "K", "i", "t", "a">>)
        /\ r.lirik_json[1][1] = "json"
        /\ Len(r.lirik_json[1][2]) = 1
        /\ Len(r.lirik_json[1][2][1].parts) = 2
        /\ \A k \in 1..2 : r.lirik_json[1][2][1].parts[k].type = "bait"
        /\ r.warnings = None
        /\ r = Val(last.row)

\* C12, as claimed: in that case the record persisted has buku "KJ", no_lagu
\* 2, judul_text "Mari Kita", a lyric-block list of length 1 with 2 verse
\* parts, and NULL warnings.
C12_AsClaimed == C12_Case => C12_Persisted

\* C12, amended: the same, when moreover the source page has a non-empty
\* paragraph (the info line).
C12_EndToEnd ==
    ( /\ C12_Case
      /\ \E k \in 1..Len(Val(last.src).page.paras) :
            NormalizeStr(Val(last.src).page.paras[k]) # << >> )
    => C12_Persisted

\* C12 witness: such a link was saved, its page having paragraphs
C12_Witness ==
    /\ C12_Case
    /\ Val(last.src).page.paras # << >>
    /\ Cardinality(store) = 1

\* split_title has returned, in either scraper
SplitTitleReturned == fop \in {"kjpkjnkb.split_title", "get_nkb_24.split_title"}

\* split_title returned (code, value, rest) for the coded heading it was given
SplitAsWritten ==
    Val(fout) = Title(Some(fin.arg.code), Some(fin.arg.value), Some(fin.arg.trimmed))

\* C13, as claimed: split_title on "<CODE> <digits>, <rest>" returns the
\* uppercased code, the number the digits stand for and the rest, in
\* get_nkb_24.py and in kjpkjnkb.py.
C13_CommaSeparator ==
    (SplitTitleReturned /\ fin.arg.form = "coded" /\ fin.arg.sep = "comma")
    => SplitAsWritten

\* C14: split_title on "<CODE> <digits> <dash> <rest>" (hyphen, en dash or em
\* dash; the code in any letter case) returns the uppercased code, the number
\* the digits stand for and the trimmed rest, whatever the leading zeros.
C14_DashSeparator ==
    (SplitTitleReturned /\ fin.arg.form = "coded"
        /\ fin.arg.sep \in {"hyphen", "endash", "emdash"})
    => SplitAsWritten

\* C14 witness: both scrapers split a lower-case code with two leading zeros
\* before an em dash
C14_Witness ==
    /\ SplitTitleReturned
    /\ fin.arg.form = "coded"
    /\ fin.arg.sep = "emdash"
    /\ fin.arg.zeros = 2
    /\ fin.arg.code = "KJ"
    /\ fin.arg.text[1] = "k"
    /\ Val(fout).no_lagu = Some(24)

\* C15: when no songbook code followed by digits is in the heading,
\* split_title returns (None, None, t), t being the whole normalized heading,
\* or None when that is empty; the text is never dropped.
C15_NoCodeKeepsText ==
    (SplitTitleReturned /\ fin.arg.form = "free")
    => Val(fout) = Title(None, None,
                         IF fin.arg.trimmed = << >> THEN None ELSE Some(fin.arg.trimmed))

\* C15 witness: "Random Untitled Song" came back whole
C15_Witness ==
    /\ SplitTitleReturned
    /\ fin.arg.form = "free"
    /\ Len(fin.arg.text) = 20
    /\ Val(fout).judul_text = Some(fin.arg.text)

\* a normalizer has returned / has returned from the call on its own result
Normalized == fop \in {"normalize_preserve_newlines", "normalize_text"}
NormalizedAgain == fop \in {"normalize_preserve_newlines.again", "normalize_text.again"}

\* C16: the normalizers are idempotent: called on what they returned they
\* return it unchanged, and None gives None; for normalize_preserve_newlines
\* (and normalize, the same code) and for normalize_text of kppk.py.
C16_NormalizeIdempotent ==
    /\ NormalizedAgain => Val(fout) = fin.arg
    /\ (Normalized /\ fin.arg = None) => Val(fout) = None

\* C16 witness: normalize_text, called on its result "a", blank line, "a",
\* returned it unchanged
C16_Witness ==
    /\ fop = "normalize_text.again"
    /\ fin.arg = Some(<<"a", "\n", "\n", "a">>)
    /\ Val(fout) = fin.arg

\* whitespace other than the line feed
BLANKS == {" ", "\t", "\r", "NBSP"}

\* C17: whatever the line ends and the whitespace-only lines of the input,
\* the normalizer's output has no carriage return, no three line feeds in a
\* row, no whitespace at the start or the end of a line, and none at the
\* start or the end of the whole.
C17_NormalizedShape ==
    (Normalized /\ fin.arg # None) =>
        LET out == Val(Val(fout))
            n == Len(out)
        IN  /\ \A k \in 1..n : out[k] # "\r"
            /\ \A k \in 1..(n - 2) : ~(out[k] = "\n" /\ out[k + 1] = "\n" /\ out[k + 2] = "\n")
            /\ \A k \in 1..n :
                  out[k] \in BLANKS =>
                      /\ 1 < k /\ k < n
                      /\ out[k - 1] # "\n"
                      /\ out[k + 1] # "\n"
            /\ n > 0 => out[1] # "\n" /\ out[n] # "\n"

\* C17 witness: three line ends of mixed kinds between two letters gave one
\* blank line
C17_Witness ==
    /\ Normalized
    /\ fin.arg = Some(<<"a", "\n", "\r", "\r", "a">>)
    /\ Val(fout) = Some(<<"a", "\n", "\n", "a">>)

\* parse_alkitab_page has returned
ParsedPage == fop = "parse_alkitab_page"

\* C18: parse_alkitab_page returns None exactly when the page has no
\* div.lagu; with a div.lagu that holds no div.lirik it returns the empty
\* list, and otherwise one block for each div.lirik.
C18_PageResult ==
    ParsedPage =>
        /\ (Val(fout) = None) <=> ~fin.arg.lagu
        /\ (fin.arg.lagu /\ fin.arg.liriks = << >>) => Val(fout) = Some(<< >>)
        /\ fin.arg.lagu => Len(Val(Val(fout))) = Len(fin.arg.liriks)

\* C18 witness: a page whose div.lagu holds no div.lirik gave the empty
\* list, not None
C18_Witness ==
    /\ ParsedPage
    /\ fin.arg.lagu
    /\ fin.arg.liriks = << >>
    /\ Val(fout) = Some(<< >>)
    /\ Val(fout) # None

\* the part the page shows for a div.bait: its kind, its number without the
\* dot, its line
AsOnPage(b) ==
    IF b = VerseOne
    THEN [type |-> "bait", no |-> Some(<<"1">>), text |-> Some(<<"M", "a", "r", "i">>)]
    ELSE IF b = VerseTwo
    THEN [type |-> "bait", no |-> Some(<<"2">>), text |-> Some(<<"K", "i", "t", "a">>)]
    ELSE [type |-> "reff", no |-> None, text |-> Some(<<"R", "e", "f", "f">>)]

\* the parts list is the list of the div.bait elements, each at its place
PartsInOrder(parts, baits) ==
    /\ Len(parts) = Len(baits)
    /\ \A j \in 1..Len(baits) : parts[j] = AsOnPage(baits[j])

\* C19: the parsers keep the order of the document: the k-th block is the
\* k-th div.lirik, and the parts of a block are its div.bait elements in
\* their order, refrains between the verses where the page has them; for
\* parse_alkitab_page and for parse_lirik_blocks of kppk.py.
C19_DocumentOrder ==
    /\ (ParsedPage /\ fin.arg.lagu) =>
           /\ Len(Val(Val(fout))) = Len(fin.arg.liriks)
           /\ \A k \in 1..Len(fin.arg.liriks) :
                  /\ Val(Val(fout))[k].lirik_no =
                         (IF k = 1 THEN None ELSE Some(<< ToString(k) >>))
                  /\ PartsInOrder(Val(Val(fout))[k].parts, fin.arg.liriks[k].baits)
    /\ fop = "parse_lirik_blocks" =>
           /\ Val(fout).lirik_no = Some(<<"1">>)
           /\ PartsInOrder(Val(fout).parts, fin.arg.baits)

\* C19 witness: a page with one div.lirik holding verse 1, the refrain and
\* verse 2 gave one block with the parts verse 1, refrain, verse 2
C19_Witness ==
    /\ ParsedPage
    /\ fin.arg.lagu
    /\ Len(fin.arg.liriks) = 1
    /\ fin.arg.liriks[1].baits = << VerseOne, Refrain, VerseTwo >>
    /\ Len(Val(Val(fout))) = 1
    /\ Val(Val(fout))[1].parts =
           << [type |-> "bait", no |-> Some(<<"1">>), text |-> Some(<<"M", "a", "r", "i">>)],
              [type |-> "reff", no |-> None, text |-> Some(<<"R", "e", "f", "f">>)],
              [type |-> "bait", no |-> Some(<<"2">>), text |-> Some(<<"K", "i", "t", "a">>)] >>

\* a 4xx status that is not of the retryable set
NotRetryable(a) == ~a.failed /\ a.status \in (400..499) \ {408, 425, 429}

\* C20: a request answered with 404, or another 4xx status outside
\* {408, 425, 429}, is not sent again: that answer is the last one of the
\* fetch, which has ended with it; for fetch of kppk.py and for fetch_html.
C20_NoRetryOn4xx ==
    \A k \in 1..Len(sent) :
        NotRetryable(sent[k]) => (k = Len(sent) /\ fpc # "trying")

\* the same for fetch_html alone, where it holds
C20_SessionNoRetryOn4xx ==
    fetcher = "fetch_html" => C20_NoRetryOn4xx

\* fetch_html was answered 503 and then 404, and raised without a third request
C20_SessionWitness ==
    /\ fetcher = "fetch_html"
    /\ sent = << Response(503), Response(404) >>
    /\ fpc = "raised"

\* the fetch of the canonical URL has failed with the status 404, and the
\* resolver stands before the fetch of the 'A' URL
NotFoundAtBase == pc = "alt" /\ baseOut = Some(HttpOut(404))

\* C22: in both variants, when the fetch of the canonical URL fails with the
\* status 404, the warning recorded is the one that names the 404 and
\* announces the retry with the 'A' suffix, not the generic HTTP note, and
\* the 'A' URL is fetched next.
C22_NotFoundNote ==
    /\ NotFoundAtBase =>
           warns = << IF variant = "batch"
                      THEN "HTTP 404 at alkitab.app (base); retry with 'A' suffix."
                      ELSE "HTTP 404 (base); will try 'A'." >>
    /\ (Resolved /\ baseOut = Some(HttpOut(404))) => altOut # None

\* the same for kjpkjnkb.py alone, where it holds
C22_BatchNotFoundNote ==
    variant = "batch" => C22_NotFoundNote

\* get_nkb_24.py after the 404: the generic note, with "?" for the status
C22_SingleGenericNote ==
    /\ variant = "single"
    /\ NotFoundAtBase
    /\ warns = << "HTTP ? (base)" >>

\* the fetch of the canonical URL did not end in a parsed page: an HTTP
\* error status, no connection, the marker, or markup the parser rejects
BaseFailed == baseOut # None /\ ~Parsed(Val(baseOut))

\* C24: whenever the canonical stage fails, for whatever reason, the
\* resolver goes on to the 'A' URL: after the failure it stands before that
\* fetch, and the link it worked on never ends, by a return or by an
\* exception, without that fetch made.
C24_AnyFailureFallsBack ==
    /\ BaseFailed => (pc = "alt" \/ altOut # None)
    /\ (last.base # None /\ ~Parsed(Val(last.base))) => last.alt # None

\* C24 witness: the canonical URL answered 500, which is neither 404 nor
\* the marker, and the 'A' URL was fetched
C24_Witness ==
    /\ Resolved
    /\ baseOut = Some(HttpOut(500))
    /\ altOut # None
    /\ fetched = << UrlBase, UrlA >>

\* the canonical URL of the song the resolver was called for, and the
\* alternate one
Canonical == "https://alkitab.app/" \o Val(Val(meta).buku) \o "/" \o ToString(Val(Val(meta).no_lagu))
Alternate == Canonical \o "A"

\* C25: one call of fetch_lyrics_from_alkitab fetches at most twice, the
\* canonical URL first and the alternate URL second, never the alternate
\* alone and never a URL twice; the URL it returns is one of the two, and is
\* the alternate one exactly when the alternate URL was fetched.
C25_TwoFetchesInOrder ==
    /\ fetched # << >> => fetched \in { << Canonical >>, << Canonical, Alternate >> }
    /\ Resolved =>
           /\ Val(res).url \in { Some(Canonical), Some(Alternate) }
           /\ (Val(res).url = Some(Alternate)) <=> (fetched = << Canonical, Alternate >>)

\* C25 witness: both URLs were fetched, in that order, and the alternate
\* one was returned
C25_Witness ==
    /\ Resolved
    /\ fetched = << Canonical, Alternate >>
    /\ Val(res).url = Some(Alternate)
    /\ Canonical = "https://alkitab.app/KJ/2"

\* C26: a result of fetch_lyrics_from_alkitab has an empty warning list
\* only if the lyrics came from the canonical URL and have a block with a
\* non-empty parts list; lyrics that are absent or empty, or the alternate
\* URL returned, come with at least one warning.
C26_SilentOnlyWhenComplete ==
    Resolved =>
        /\ Val(res).warns = << >> =>
               /\ Val(res).url = Some(Canonical)
               /\ Val(res).lirik # None
               /\ \E k \in 1..Len(Val(Val(res).lirik)) :
                      Val(Val(res).lirik)[k].parts # << >>
        /\ (Val(res).lirik = None \/ Val(res).lirik = Some(<< >>)
                \/ Val(res).url = Some(Alternate)) =>
               Val(res).warns # << >>

\* C26 witness: the canonical page gave lyrics with parts and no warning
C26_Witness ==
    /\ Resolved
    /\ Val(res).warns = << >>
    /\ Val(res).url = Some(Canonical)
    /\ Val(res).lirik # None
    /\ Val(Val(res).lirik) # << >>
    /\ Val(Val(res).lirik)[1].parts # << >>

\* a second case of C26: the canonical page has a div.lagu without
\* div.lirik, the lyrics returned are the empty list, with a warning
C26_EmptyWarned ==
    /\ Resolved
    /\ Val(res).lirik = Some(<< >>)
    /\ Val(res).url = Some(Canonical)
    /\ Val(res).warns # << >>

\* the canonical URL of the song a stored row is about
CanonicalOf(r) == "https://alkitab.app/" \o Val(r.buku) \o "/" \o ToString(Val(r.no_lagu))

\* C27: every row process_file has persisted has buku, no_lagu and
\* judul_text, and as lyrics_source_url the canonical URL built from its own
\* buku and no_lagu, or that URL with 'A' appended; a link whose lyrics
\* resolution was skipped (buku or no_lagu not available) is never saved.
C27_PersistedRowsResolved ==
    variant = "batch" =>
        /\ \A r \in store :
               /\ r.buku # None
               /\ r.no_lagu # None
               /\ r.judul_text # None
               /\ r.lyrics_source_url \in { Some(CanonicalOf(r)), Some(CanonicalOf(r) \o "A") }
        /\ last.phase = "saved" => Val(last.res).url # None

\* C27 witness: process_file has saved a row whose lyrics came from the
\* 'A' URL of its own key, and has met a link whose resolution was skipped,
\* which it did not save
C27_Witness ==
    /\ variant = "batch"
    /\ \E r \in store :
           /\ r.buku = Some("KJ")
           /\ r.no_lagu = Some(2)
           /\ r.lyrics_source_url = Some("https://alkitab.app/KJ/2A")
    /\ last.phase = "upsert"
    /\ Val(last.res).url = None

\* split_title of get_nkb_24.py has returned
SplitTitleSingleReturned == fop = "get_nkb_24.split_title"

\* it returned the code in capitals, the value of the digits, and as title
\* what follows them less one separator, or None when nothing follows
SplitLoosely ==
    Val(fout) = Title(Some(fin.arg.code), Some(fin.arg.value),
                      IF fin.arg.trimmed = << >> THEN None ELSE Some(fin.arg.trimmed))

\* C23, as claimed: whenever a songbook code followed by digits occurs in a
\* heading the strict pattern does not match, split_title of get_nkb_24.py
\* returns that code and number.
C23_AsClaimed ==
    (SplitTitleSingleReturned /\ fin.arg.form \in {"loose", "lettered"})
    => /\ Val(fout).buku = Some(fin.arg.code)
       /\ Val(fout).no_lagu = Some(fin.arg.value)

\* C23: when the strict pattern does not match but a songbook code followed
\* by digits, themselves not followed by a letter, a digit or an
\* underscore, occurs in the normalized heading, split_title of
\* get_nkb_24.py returns the code in capitals, the value of the digits
\* without their leading zeros, and as title the text after them with at
\* most one leading separator removed, None if nothing remains.
C23_FuzzySplit ==
    (SplitTitleSingleReturned /\ fin.arg.form = "loose") => SplitLoosely

\* C23 witness: "NKB 024" gave ("NKB", 24, None)
C23_Witness ==
    /\ SplitTitleSingleReturned
    /\ fin.arg.text = <<"N", "K", "B", " ", "0", "2", "4">>
    /\ Val(fout) = Title(Some("NKB"), Some(24), None)

\* the case C23 leaves out: "KJ 2a - X" is returned whole, without code
C23_LetteredWhole ==
    /\ SplitTitleSingleReturned
    /\ fin.arg.text = <<"K", "J", " ", "2", "a", " ", "-", " ", "X">>
    /\ Val(fout) = Title(None, None, Some(fin.arg.text))

\* C29, as claimed: every upsert_record(conn, buku, num, rec) of the crawl
\* writes the row under the key (buku, num) it was called with, whatever
\* the page title says, so that two different targets never write the same
\* row.
C29_KeyIsTarget ==
    /\ \A k \in 1..Len(written) :
           written[k].key = << Some(written[k].buku), Some(written[k].num) >>
    /\ \A j, k \in 1..Len(written) : j # k => written[j].key # written[k].key

\* the page of target (KPPK, 1) is titled "kpri 1 Kudus": its row is
\* written under (KPRI, 1)
C29_WrittenElsewhere ==
    /\ Len(written) >= 1
    /\ written[1].buku = "KPPK"
    /\ written[1].num = 1
    /\ written[1].key = << Some("KPRI"), Some(1) >>

\* what does hold: the page number of the key is the one of the target
C29_PageNumberIsTarget ==
    \A k \in 1..Len(written) : written[k].key[2] = Some(written[k].num)

\* the step is an upsert_hymn call: rows under another key than the row's
\* stay as they are, and a call that raises leaves the table as it was
HymnsFrame ==
    pc = "save" =>
        IF last'.phase = "saved"
        THEN \A r \in store : ~SameKey(r, Val(last'.row)) => r \in store'
        ELSE store' = store

\* the step is a turn of the crawl: the same for upsert_record and table lagu
LaguFrame ==
    cpc = "run" =>
        IF Val(clast').outcome = "upsert"
        THEN \A r \in lagu :
                 << r.buku, r.page_no >> # written'[Len(written')].key => r \in lagu'
        ELSE lagu' = lagu

\* C28: an upsert leaves every stored row with a different key unchanged in
\* all fields, and an upsert that fails (a NOT NULL violation, a failure of
\* the database) leaves the whole table unchanged; for upsert_hymn and for
\* upsert_record.
C28_UpsertFrame == [][HymnsFrame /\ LaguFrame]_vars

\* C28 witness: process_file has saved a second row, and the row of the
\* first link, under another key, is still stored as it was written
C28_Witness ==
    /\ variant = "batch"
    /\ last.phase = "saved"
    /\ Val(last.row).fetched_at = Some(2)
    /\ \E r \in store : ~SameKey(r, Val(last.row)) /\ r.fetched_at = Some(1)

\* a second case of C28: an upsert failed on NOT NULL after a row was stored
C28_FailedWitness ==
    /\ variant = "batch"
    /\ last.phase = "upsert"
    /\ ~last.fault
    /\ store # {}

\* a third case of C28: the crawl has two rows under different keys
C28_LaguWitness ==
    /\ Len(written) = 2
    /\ written[1].key # written[2].key
    /\ Cardinality(lagu) = 2

\* update_word_file has returned
Updated == dpc = "done"

\* the path 'Liturgi <date>.docx' next to the template
LiturgiPath ==
    Path(Val(dtemplate).dir, <<"L", "i", "t", "u", "r", "g", "i", " ">> \o ddate
                             \o <<".", "d", "o", "c", "x">>)

\* the archive of that file
Liturgi == (CHOOSE f \in dfiles : f.path = LiturgiPath).archive

\* the texts of the Tanggal cell that stand for the date asked for
SerialTexts ==
    IF ddate = <<"2", "0", "2", "4", "-", "0", "4", "-", "0", "7">>
    THEN (IF Val(dsched).use_1904 THEN { <<"4", "3", "9", "2", "7">> } ELSE { <<"4", "5", "3", "8", "9">>, <<"4", "5", "3", "8", "9", ".", "5">> })
    ELSE IF ddate = <<"1", "9", "0", "0", "-", "0", "2", "-", "2", "8">> /\ ~Val(dsched).use_1904 THEN { <<"5", "9">> }
    ELSE {}

\* the schedule row of the date asked for: the first with such a cell
ScheduleRow ==
    LET rows == Val(dsched).rows
        ks == { k \in 1..Len(rows) : rows[k] # << >> /\ rows[k][1] \in SerialTexts }
    IN  rows[CHOOSE k \in ks : \A j \in ks : k <= j]

\* the texts of the elements with the tag in docProps/core.xml, as read
CoreTexts(tag) ==
    LET core == ZipRead(Liturgi, "docProps/core.xml")
        Sel[k \in 0..Len(core)] ==
            IF k = 0 THEN << >>
            ELSE Sel[k - 1] \o (IF core[k].tag = tag THEN << core[k].text >> ELSE << >>)
    IN  Sel[Len(core)]

\* the children of the properties with the name in docProps/custom.xml, as
\* read: per property the tags and texts
CustomValues(name) ==
    LET custom == ZipRead(Liturgi, "docProps/custom.xml")
        Kids(e) == [j \in 1..Len(e.children) |-> << e.children[j].tag, e.children[j].text >>]
        Sel[k \in 0..Len(custom)] ==
            IF k = 0 THEN << >>
            ELSE Sel[k - 1] \o (IF custom[k].attrs.name = name THEN << Kids(custom[k]) >>
                                ELSE << >>)
    IN  Sel[Len(custom)]

\* the document reads v for the column at place c of the sheet: once as
\* dc:subject or dc:title, or in one property holding one lpwstr
ReadsAs(c, v) ==
    CASE c = 1 -> CustomValues("@TANGGAL") = << << << "vt:lpwstr", v >> >> >>
      [] c = 2 -> CoreTexts("dc:subject") = << v >>
      [] c = 3 -> CoreTexts("dc:title") = << v >>
      [] c = 4 -> CustomValues("@BACAAN 1") = << << << "vt:lpwstr", v >> >> >>

\* C21, as claimed: after update_word_file the file 'Liturgi <date>.docx'
\* exists next to the template, and its core.xml and custom.xml read, for
\* every property, the value of the schedule row of the date.
C21_AsClaimed ==
    Updated =>
        /\ dout = Some(LiturgiPath)
        /\ \E f \in dfiles : f.path = LiturgiPath
        /\ \A c \in 1..Len(ScheduleRow) : ReadsAs(c, Some(ScheduleRow[c]))

\* C21: after update_word_file the file 'Liturgi <date>.docx' exists next to
\* the template, and reading its core.xml and custom.xml (the entries
\* written last under those names) gives, for every property of a non-empty
\* cell of the schedule row of the date, the text of the cell: dc:title the
\* Tema, dc:subject the Nama Minggu, each custom property one lpwstr; for an
\* empty cell the element is there without text; a custom property the
\* template had is updated in place, not duplicated.
C21_PropertiesWritten ==
    Updated =>
        /\ dout = Some(LiturgiPath)
        /\ \E f \in dfiles : f.path = LiturgiPath
        /\ \A c \in 1..Len(ScheduleRow) :
              ReadsAs(c, IF ScheduleRow[c] = << >> THEN None ELSE Some(ScheduleRow[c]))

\* C21 witness: the template had a title and a property "@BACAAN 1" with
\* pid 2; for 2024-04-07 the document reads the Tema, the Nama Minggu and
\* the Bacaan 1 of the row, in the same property
C21_Witness ==
    /\ Updated
    /\ ddate = <<"2", "0", "2", "4", "-", "0", "4", "-", "0", "7">>
    /\ ZipRead(FileAt(dfiles, Val(dtemplate)).archive, "docProps/core.xml") = CORE_TITLED
    /\ ZipRead(FileAt(dfiles, Val(dtemplate)).archive, "docProps/custom.xml") = CUSTOM_READING
    /\ CoreTexts("dc:title") = << Some(<<"T", "e", "m", "a", " ", "C", "o", "n", "t", "o", "h">>) >>
    /\ CoreTexts("dc:subject") = << Some(<<"M", "i", "n", "g", "g", "u", " ", "P", "a", "l", "m", "a">>) >>
    /\ CustomValues("@BACAAN 1") = << << << "vt:lpwstr", Some(<<"Y", "e", "s", "a", "y", "a", " ", "1", ":", "1">>) >> >> >>
    /\ ZipRead(Liturgi, "docProps/custom.xml")[1].attrs = [name |-> "@BACAAN 1", pid |-> 2]

\* the case C21 sets apart: the Tema cell is empty, and dc:title reads
\* without text
C21_EmptyCell ==
    /\ Updated
    /\ ScheduleRow = ROW_NOTHEME
    /\ CoreTexts("dc:title") = << None >>

====
